---- MODULE Spec2Model ----
(***************************************************************************)
(* Model of src/py05/ex2/nexus_pipeline.py: the stages, the pipeline's     *)
(* run_stages / recover, the three adapters (JSONAdapter, CSVAdapter,      *)
(* StreamAdapter) and the NexusManager.                                    *)
(*                                                                         *)
(* Python values are tagged records [t, v].  A str is a sequence of        *)
(* tokens (words and punctuation marks; every comma, newline, quote,       *)
(* brace and bracket is a token of its own, blanks between tokens are      *)
(* not represented).  A float is a whole number of tenths, an int is a     *)
(* whole number.  A dict is the sequence of its items in insertion         *)
(* order, a list the sequence of its elements.                             *)
(***************************************************************************)
EXTENDS Integers, Sequences, FiniteSets, TLC

(***************************************************************************)
(* Python values                                                           *)
(***************************************************************************)
PyStr(toks)   == [t |-> "str",   v |-> toks]
PyInt(n)      == [t |-> "int",   v |-> n]
PyFloat(n10)  == [t |-> "float", v |-> n10]
PyBool(b)     == [t |-> "bool",  v |-> b]
PyNone        == [t |-> "none",  v |-> 0]
PyDict(items) == [t |-> "dict",  v |-> items]
PyList(elems) == [t |-> "list",  v |-> elems]

Item(k, x) == [k |-> k, val |-> x]

\* isinstance(x, str) and friends; bool is a subclass of int in Python
IsStr(x)   == x.t = "str"
IsDict(x)  == x.t = "dict"
IsList(x)  == x.t = "list"
IsIntOrFloat(x) == x.t \in {"int", "float", "bool"}
IsBool(x)  == x.t = "bool"

\* float(x) for an int, float or bool, in tenths
ToFloat10(x) ==
    CASE x.t = "float" -> x.v
      [] x.t = "int"   -> x.v * 10
      [] x.t = "bool"  -> IF x.v THEN 10 ELSE 0

(***************************************************************************)
(* dict operations                                                         *)
(***************************************************************************)
HasKey(d, k) == \E i \in 1..Len(d.v) : d.v[i].k = k

\* d.get(k, default)
DictGet(d, k, default) ==
    IF HasKey(d, k)
    THEN d.v[CHOOSE i \in 1..Len(d.v) : d.v[i].k = k].val
    ELSE default

\* d[k] = x : an existing key keeps its position, a new key goes last
DictSet(d, k, x) ==
    IF HasKey(d, k)
    THEN PyDict([i \in 1..Len(d.v) |->
                    IF d.v[i].k = k THEN Item(k, x) ELSE d.v[i]])
    ELSE PyDict(Append(d.v, Item(k, x)))

\* d.setdefault(k, x)
DictSetDefault(d, k, x) == IF HasKey(d, k) THEN d ELSE DictSet(d, k, x)

(***************************************************************************)
(* str(), repr() and number formatting                                     *)
(***************************************************************************)
Abs(n) == IF n < 0 THEN -n ELSE n

\* f"{x:.1f}" of a float given in tenths
FormatTenths(n10) ==
    (IF n10 < 0 THEN "-" ELSE "") \o ToString(Abs(n10) \div 10)
        \o "." \o ToString(Abs(n10) % 10)

FormatInt(n) == (IF n < 0 THEN "-" ELSE "") \o ToString(Abs(n))

\* what repr() writes inside the quotes for one token of a str
EscapeTok(tok, quote) ==
    CASE tok = "\n" -> "\\n"
      [] tok = "\\" -> "\\\\"
      [] tok = quote -> "\\" \o quote
      [] OTHER -> tok

HasTok(toks, tok) == \E i \in 1..Len(toks) : toks[i] = tok

\* repr() of a str: single quotes unless the text holds ' and no "
ReprStr(toks) ==
    LET quote == IF HasTok(toks, "'") /\ ~HasTok(toks, "\"")
                 THEN "\"" ELSE "'"
    IN  <<quote>> \o [i \in 1..Len(toks) |-> EscapeTok(toks[i], quote)]
                  \o <<quote>>

RECURSIVE PyRepr(_)
RECURSIVE ReprItems(_, _)
RECURSIVE ReprElems(_, _)

\* the items of a dict from position i on: k: v, k: v
ReprItems(items, i) ==
    IF i > Len(items) THEN <<>>
    ELSE PyRepr(items[i].k) \o <<":">> \o PyRepr(items[i].val)
            \o (IF i < Len(items) THEN <<",">> ELSE <<>>)
            \o ReprItems(items, i + 1)

ReprElems(elems, i) ==
    IF i > Len(elems) THEN <<>>
    ELSE PyRepr(elems[i])
            \o (IF i < Len(elems) THEN <<",">> ELSE <<>>)
            \o ReprElems(elems, i + 1)

PyRepr(x) ==
    CASE x.t = "str"   -> ReprStr(x.v)
      [] x.t = "int"   -> <<FormatInt(x.v)>>
      [] x.t = "float" -> <<FormatTenths(x.v)>>
      [] x.t = "bool"  -> <<IF x.v THEN "True" ELSE "False">>
      [] x.t = "none"  -> <<"None">>
      [] x.t = "dict"  -> <<"{">> \o ReprItems(x.v, 1) \o <<"}">>
      [] x.t = "list"  -> <<"[">> \o ReprElems(x.v, 1) \o <<"]">>

\* str(x) and f"{x}": the text itself for a str, repr() for the rest
PyStrOf(x) == IF IsStr(x) THEN x.v ELSE PyRepr(x)

(***************************************************************************)
(* Exceptions: the class name and the message, str(e)                      *)
(***************************************************************************)
Exc(type, msg) == [type |-> type, msg |-> msg]

Raised(e) == [ok |-> FALSE, exc |-> e]
Returned(x) == [ok |-> TRUE, val |-> x]

\* f"{type(e).__name__}: {e}"
ErrorText(e) == <<e.type \o ":">> \o e.msg

(***************************************************************************)
(* json.loads on a token sequence.  A JSON string literal is an opening    *)
(* quote token, its words, and a closing quote token; a number is one      *)
(* token.  The "line 1 column n (char m)" tail of a JSONDecodeError        *)
(* message is not represented.                                             *)
(***************************************************************************)
MaxNum == 60

JsonNumbers ==
    [tok \in {FormatInt(n) : n \in -MaxNum..MaxNum} |->
        PyInt(CHOOSE n \in -MaxNum..MaxNum : FormatInt(n) = tok)]
    @@
    [tok \in {FormatTenths(n) : n \in -(10 * MaxNum)..(10 * MaxNum)} |->
        PyFloat(CHOOSE n \in -(10 * MaxNum)..(10 * MaxNum) :
                    FormatTenths(n) = tok)]

JsonErr(words) == [ok |-> FALSE, msg |-> words]
JsonOk(x, next) == [ok |-> TRUE, val |-> x, next |-> next]

ExpectingValue == JsonErr(<<"Expecting", "value">>)
ExpectingName ==
    JsonErr(<<"Expecting", "property", "name", "enclosed", "in",
              "double", "quotes">>)
ExpectingComma == JsonErr(<<"Expecting", "'", ",", "'", "delimiter">>)
ExpectingColon == JsonErr(<<"Expecting", "'", ":", "'", "delimiter">>)
Unterminated ==
    JsonErr(<<"Unterminated", "string", "starting", "at">>)
ExtraData == JsonErr(<<"Extra", "data">>)

TokAt(toks, i) == IF i <= Len(toks) THEN toks[i] ELSE "<end>"

\* the string literal whose opening quote is at i - 1
ParseString(toks, i) ==
    IF \E j \in i..Len(toks) : toks[j] = "\""
    THEN LET j == CHOOSE j \in i..Len(toks) :
                    /\ toks[j] = "\""
                    /\ \A m \in i..(j - 1) : toks[m] # "\""
         IN  JsonOk(PyStr(SubSeq(toks, i, j - 1)), j + 1)
    ELSE Unterminated

RECURSIVE ParseValue(_, _)
RECURSIVE ParseMembers(_, _, _)
RECURSIVE ParseElements(_, _, _)

\* the members of an object, the opening quote of the next key being at i
ParseMembers(toks, i, acc) ==
    LET key == ParseString(toks, i + 1) IN
    IF ~key.ok THEN key
    ELSE IF TokAt(toks, key.next) # ":" THEN ExpectingColon
    ELSE LET x == ParseValue(toks, key.next + 1) IN
         IF ~x.ok THEN x
         ELSE LET d == DictSet(acc, key.val, x.val)
                  tok == TokAt(toks, x.next)
              IN  IF tok = "}" THEN JsonOk(d, x.next + 1)
                  ELSE IF tok # "," THEN ExpectingComma
                  ELSE IF TokAt(toks, x.next + 1) # "\"" THEN ExpectingName
                  ELSE ParseMembers(toks, x.next + 1, d)

\* the elements of an array, the next element starting at i
ParseElements(toks, i, acc) ==
    LET x == ParseValue(toks, i) IN
    IF ~x.ok THEN x
    ELSE LET l == PyList(Append(acc.v, x.val))
             tok == TokAt(toks, x.next)
         IN  IF tok = "]" THEN JsonOk(l, x.next + 1)
             ELSE IF tok # "," THEN ExpectingComma
             ELSE ParseElements(toks, x.next + 1, l)

ParseValue(toks, i) ==
    LET tok == TokAt(toks, i) IN
    CASE tok = "\"" -> ParseString(toks, i + 1)
      [] tok = "{" ->
            IF TokAt(toks, i + 1) = "}" THEN JsonOk(PyDict(<<>>), i + 2)
            ELSE IF TokAt(toks, i + 1) # "\"" THEN ExpectingName
            ELSE ParseMembers(toks, i + 1, PyDict(<<>>))
      [] tok = "[" ->
            IF TokAt(toks, i + 1) = "]" THEN JsonOk(PyList(<<>>), i + 2)
            ELSE ParseElements(toks, i + 1, PyList(<<>>))
      [] tok = "true"  -> JsonOk(PyBool(TRUE), i + 1)
      [] tok = "false" -> JsonOk(PyBool(FALSE), i + 1)
      [] tok = "null"  -> JsonOk(PyNone, i + 1)
      [] tok \in DOMAIN JsonNumbers -> JsonOk(JsonNumbers[tok], i + 1)
      [] OTHER -> ExpectingValue

\* json.loads(text)
json_loads(text) ==
    LET x == ParseValue(text.v, 1) IN
    IF ~x.ok THEN Raised(Exc("JSONDecodeError", x.msg))
    ELSE IF x.next <= Len(text.v)
         THEN Raised(Exc("JSONDecodeError", ExtraData.msg))
         ELSE Returned(x.val)

(***************************************************************************)
(* Stages.  A stage's process returns or raises; "same" tells whether the  *)
(* returned value is the very object it was given, and "arg" is that       *)
(* object as the call leaves it.                                           *)
(***************************************************************************)
StageReturn(x, same, arg) ==
    [ok |-> TRUE, val |-> x, same |-> same, arg |-> arg]
StageRaise(e, arg) == [ok |-> FALSE, exc |-> e, arg |-> arg]

\* an input stage that accepts text and records only
InputStage_process_no_list(data) ==
    IF ~(IsStr(data) \/ IsDict(data))
    THEN StageRaise(Exc("ValueError", <<"Invalid", "input", "type">>), data)
    ELSE StageReturn(data, TRUE, data)

InputStage_process(data) ==
    IF ~(IsStr(data) \/ IsDict(data) \/ IsList(data))
    THEN StageRaise(Exc("ValueError", <<"Invalid", "input", "type">>), data)
    ELSE StageReturn(data, TRUE, data)

\* words whose lower-case form contains "stream"
StreamWords == {"stream", "Stream", "STREAM", "stream:", "StreamAdapter"}

\* text.split(","), each part stripped
RECURSIVE SplitComma(_, _, _)
SplitComma(toks, i, part) ==
    IF i > Len(toks) THEN <<PyStr(part)>>
    ELSE IF toks[i] = "," THEN <<PyStr(part)>> \o SplitComma(toks, i + 1, <<>>)
    ELSE SplitComma(toks, i + 1, Append(part, toks[i]))

\* {str(k): v for k, v in data.items()}
RECURSIVE StrKeys(_, _, _)
StrKeys(items, i, acc) ==
    IF i > Len(items) THEN acc
    ELSE StrKeys(items, i + 1,
                 DictSet(acc, PyStr(PyStrOf(items[i].k)), items[i].val))

Validated == Item(PyStr(<<"validated">>), PyBool(TRUE))
Meta(source) ==
    PyDict(<<Validated, Item(PyStr(<<"source">>), PyStr(<<source>>))>>)
MetaKey == PyStr(<<"_meta">>)

TransformStage_process(data) ==
    IF IsDict(data)
    THEN StageReturn(DictSet(StrKeys(data.v, 1, PyDict(<<>>)),
                             MetaKey, Meta("nexus")),
                     FALSE, data)
    ELSE IF IsStr(data) /\ HasTok(data.v, ",") /\ ~HasTok(data.v, "\n")
    THEN StageReturn(
            PyDict(<<Item(PyStr(<<"csv_header">>),
                          PyList(SplitComma(data.v, 1, <<>>))),
                     Item(MetaKey, PyDict(<<Validated>>))>>),
            FALSE, data)
    ELSE IF IsStr(data) /\ \E i \in 1..Len(data.v) : data.v[i] \in StreamWords
    THEN StageReturn(
            PyDict(<<Item(PyStr(<<"stream">>), data),
                     Item(MetaKey, PyDict(<<Validated>>))>>),
            FALSE, data)
    ELSE StageReturn(data, TRUE, data)

OutputStage_process(data) == StageReturn(data, TRUE, data)

\* a backup transform that hands a list on as it is
BackupTransformStage_process_list_kept(data) ==
    IF IsDict(data)
    THEN LET d == DictSetDefault(data, MetaKey, Meta("backup"))
         IN  StageReturn(d, TRUE, d)
    ELSE IF IsList(data) THEN StageReturn(data, TRUE, data)
    ELSE StageReturn(PyDict(<<Item(PyStr(<<"raw">>), data),
                              Item(MetaKey, Meta("backup"))>>),
                     FALSE, data)

BackupTransformStage_process(data) ==
    IF IsDict(data)
    THEN LET d == DictSetDefault(data, MetaKey, Meta("backup"))
         IN  StageReturn(d, TRUE, d)
    ELSE StageReturn(PyDict(<<Item(PyStr(<<"raw">>), data),
                              Item(MetaKey, Meta("backup"))>>),
                     FALSE, data)

\* stage.process(current), by the class of the stage
StageProcess(stage, data) ==
    CASE stage = "InputStage" -> InputStage_process(data)
      [] stage = "TransformStage" -> TransformStage_process(data)
      [] stage = "OutputStage" -> OutputStage_process(data)
      [] stage = "BackupTransformStage" -> BackupTransformStage_process(data)

(***************************************************************************)
(* PipelineStats and ProcessingPipeline.  Times are whole clock ticks.     *)
(***************************************************************************)
NoText == <<>>

PipelineStats ==
    [processed |-> 0, failed |-> 0, recovered |-> 0, total_time_s |-> 0,
     last_error |-> NoText, stage_timings_s |-> <<>>]

\* stage_timings_s.get(name, 0.0)
TimingGet(timings, name) ==
    IF name \in DOMAIN timings THEN timings[name] ELSE 0

\* stage_timings_s[name] = x
TimingSet(timings, name, x) ==
    [n \in DOMAIN timings \cup {name} |-> IF n = name THEN x ELSE timings[n]]

\* an efficiency that is 0 for a pipeline without calls
efficiency_pct_zero(stats) ==
    LET total == stats.processed + stats.failed IN
    IF total = 0 THEN <<0, 1>> ELSE <<stats.processed * 100, total>>

\* efficiency_pct(), as the pair numerator / denominator of the percentage
efficiency_pct(stats) ==
    LET total == stats.processed + stats.failed IN
    IF total = 0 THEN <<100, 1>> ELSE <<stats.processed * 100, total>>

DefaultStages == <<"InputStage", "TransformStage", "OutputStage">>

WindowMaxLen == 50

\* a pipeline constructed with recovery switched off
NewPipeline_recovery_off(kind) ==
    [kind |-> kind, stages |-> DefaultStages, stats |-> PipelineStats,
     recovery_enabled |-> FALSE, window |-> <<>>]

\* ProcessingPipeline.__init__ as the adapters call it; window is the
\* StreamAdapter's deque and stays empty in the other adapters
NewPipeline(kind) ==
    [kind |-> kind, stages |-> DefaultStages, stats |-> PipelineStats,
     recovery_enabled |-> TRUE, window |-> <<>>]

\* a loop that charges the time of a failing stage to its timing entry
RECURSIVE RunFrom_failure_timed(_, _, _, _, _, _, _)
RunFrom_failure_timed(pl, i, current, aliased, data, tick, invoked) ==
    IF i > Len(pl.stages)
    THEN [pl |-> pl, ok |-> TRUE, val |-> current, same |-> aliased,
          data |-> data, invoked |-> invoked, runs |-> 1, recovers |-> 0]
    ELSE LET stage_name == pl.stages[i]
             timed == [pl EXCEPT !.stats.stage_timings_s =
                            TimingSet(@, stage_name,
                                      TimingGet(@, stage_name) + tick)]
             Step(r) ==
                IF ~r.ok
                THEN [pl |-> timed, ok |-> FALSE, exc |-> r.exc,
                      data |-> IF aliased THEN r.arg ELSE data,
                      invoked |-> Append(invoked, stage_name), runs |-> 1,
                      recovers |-> 0]
                ELSE RunFrom_failure_timed(
                        timed, i + 1, r.val, aliased /\ r.same,
                        IF aliased THEN r.arg ELSE data, tick,
                        Append(invoked, stage_name))
         IN  Step(StageProcess(stage_name, current))

\* the loop of run_stages from stage i on; current is the value handed from
\* stage to stage, aliased tells whether it still is the object data, invoked
\* lists the stages whose process was entered
RECURSIVE RunFrom(_, _, _, _, _, _, _)
RunFrom(pl, i, current, aliased, data, tick, invoked) ==
    IF i > Len(pl.stages)
    THEN [pl |-> pl, ok |-> TRUE, val |-> current, same |-> aliased,
          data |-> data, invoked |-> invoked, runs |-> 1, recovers |-> 0]
    ELSE LET stage_name == pl.stages[i]
             Step(r) ==
                IF ~r.ok
                THEN [pl |-> pl, ok |-> FALSE, exc |-> r.exc,
                      data |-> IF aliased THEN r.arg ELSE data,
                      invoked |-> Append(invoked, stage_name), runs |-> 1,
                      recovers |-> 0]
                ELSE RunFrom(
                        [pl EXCEPT !.stats.stage_timings_s =
                            TimingSet(@, stage_name,
                                      TimingGet(@, stage_name) + tick)],
                        i + 1, r.val, aliased /\ r.same,
                        IF aliased THEN r.arg ELSE data, tick,
                        Append(invoked, stage_name))
         IN  Step(StageProcess(stage_name, current))

\* run_stages(data); aliased: data is an object the caller of process holds
run_stages(pl, data, aliased, tick) ==
    RunFrom(pl, 1, data, aliased, data, tick, <<>>)

\* a swap that puts the primary transform back where the backup is
SwapTransform_toggle(stages) ==
    [i \in 1..Len(stages) |->
        CASE stages[i] = "TransformStage" -> "BackupTransformStage"
          [] stages[i] = "BackupTransformStage" -> "TransformStage"
          [] OTHER -> stages[i]]

SwapTransform(stages) ==
    [i \in 1..Len(stages) |->
        IF stages[i] = "TransformStage" THEN "BackupTransformStage"
        ELSE stages[i]]

\* recover that leaves the recovered counter alone
recover_uncounted(pl, data, error, tick) ==
    LET pl1 == [pl EXCEPT !.stats.last_error = ErrorText(error)]
        pl2 == [pl1 EXCEPT !.stages = SwapTransform(@)]
    IN  [run_stages(pl2, data, TRUE, tick) EXCEPT !.recovers = 1]

\* recover that recovers once more when its re-run fails
recover_retry(pl, data, error, tick) ==
    LET pl1 == [pl EXCEPT !.stats.recovered = @ + 1,
                          !.stats.last_error = ErrorText(error)]
        pl2 == [pl1 EXCEPT !.stages = SwapTransform(@)]
        Again(first) ==
            IF first.ok THEN [first EXCEPT !.recovers = 1]
            ELSE [run_stages(
                    [first.pl EXCEPT
                        !.stats.recovered = @ + 1,
                        !.stats.last_error = ErrorText(first.exc)],
                    first.data, TRUE, tick)
                  EXCEPT !.recovers = 2, !.runs = 2]
    IN  Again(run_stages(pl2, data, TRUE, tick))

\* recover that starts the statistics afresh
recover_fresh(pl, data, error, tick) ==
    LET pl1 == [pl EXCEPT !.stats = [PipelineStats EXCEPT
                                        !.recovered = 1,
                                        !.last_error = ErrorText(error)]]
        pl2 == [pl1 EXCEPT !.stages = SwapTransform(@)]
    IN  [run_stages(pl2, data, TRUE, tick) EXCEPT !.recovers = 1]

\* recover that undoes the counter and the swap when its re-run fails
recover_rollback(pl, data, error, tick) ==
    LET pl1 == [pl EXCEPT !.stats.recovered = @ + 1,
                          !.stats.last_error = ErrorText(error)]
        pl2 == [pl1 EXCEPT !.stages = SwapTransform(@)]
        Undo(rs) == IF rs.ok THEN rs ELSE [rs EXCEPT !.pl = pl]
    IN  [Undo(run_stages(pl2, data, TRUE, tick)) EXCEPT !.recovers = 1]

\* recover that does not record the error
recover_silent(pl, data, error, tick) ==
    LET pl1 == [pl EXCEPT !.stats.recovered = @ + 1]
        pl2 == [pl1 EXCEPT !.stages = SwapTransform(@)]
    IN  [run_stages(pl2, data, TRUE, tick) EXCEPT !.recovers = 1]

\* recover(data, error); runs and recovers count the entries into run_stages
\* and recover
recover(pl, data, error, tick) ==
    LET pl1 == [pl EXCEPT !.stats.recovered = @ + 1,
                          !.stats.last_error = ErrorText(error)]
        pl2 == [pl1 EXCEPT !.stages = SwapTransform(@)]
    IN  [run_stages(pl2, data, TRUE, tick) EXCEPT !.recovers = 1]

(***************************************************************************)
(* Adapters.  process(data) yields the pipeline as the call leaves it, the *)
(* value returned or the exception raised (ret), the caller's object as    *)
(* the call leaves it (data), and a record of what the call did: how often *)
(* run_stages and recover were entered (runs, recovers), the exception     *)
(* caught by the outer handler (primary) and by the inner one (secondary). *)
(***************************************************************************)
NoExc == Exc("", <<>>)

\* type(x).__name__
TypeName(x) ==
    CASE x.t = "none" -> "NoneType"
      [] x.t = "str" -> "str"
      [] x.t = "int" -> "int"
      [] x.t = "float" -> "float"
      [] x.t = "bool" -> "bool"
      [] x.t = "dict" -> "dict"
      [] x.t = "list" -> "list"

NoAttribute(x, attr) ==
    Exc("AttributeError",
        <<"'", TypeName(x), "'", "object", "has", "no", "attribute",
          "'", attr, "'">>)

NormalLow10 == 150
NormalHigh10 == 300

\* a summary whose normal range excludes its upper end
JSONSummary_exclusive(result) ==
    LET sensor == PyStrOf(DictGet(result, PyStr(<<"sensor">>),
                                  PyStr(<<"unknown">>)))
        value == DictGet(result, PyStr(<<"value">>), PyNone)
        unit == PyStrOf(DictGet(result, PyStr(<<"unit">>), PyStr(<<>>)))
    IN  IF /\ sensor = <<"temp">>
           /\ IsIntOrFloat(value)
           /\ unit \in {<<"C">>, <<"c">>}
        THEN LET status ==
                    IF NormalLow10 <= ToFloat10(value)
                       /\ ToFloat10(value) < NormalHigh10
                    THEN <<"Normal", "range">> ELSE <<"Out", "of", "range">>
             IN  <<"Processed", "temperature", "reading:",
                   FormatTenths(ToFloat10(value)) \o "degC", "(">>
                    \o status \o <<")">>
        ELSE <<"Processed", "JSON", "record:", "sensor=">> \o sensor
                \o <<",", "value=">> \o PyStrOf(value) \o unit

\* the formatting of JSONAdapter.process, lines 401-422
JSONSummary(result) ==
    LET sensor == PyStrOf(DictGet(result, PyStr(<<"sensor">>),
                                  PyStr(<<"unknown">>)))
        value == DictGet(result, PyStr(<<"value">>), PyNone)
        unit == PyStrOf(DictGet(result, PyStr(<<"unit">>), PyStr(<<>>)))
    IN  IF /\ sensor = <<"temp">>
           /\ IsIntOrFloat(value)
           /\ unit \in {<<"C">>, <<"c">>}
        THEN LET status ==
                    IF NormalLow10 <= ToFloat10(value)
                       /\ ToFloat10(value) <= NormalHigh10
                    THEN <<"Normal", "range">> ELSE <<"Out", "of", "range">>
             IN  <<"Processed", "temperature", "reading:",
                   FormatTenths(ToFloat10(value)) \o "degC", "(">>
                    \o status \o <<")">>
        ELSE <<"Processed", "JSON", "record:", "sensor=">> \o sensor
                \o <<",", "value=">> \o PyStrOf(value) \o unit

\* the finally clause: total_time_s += perf_counter() - t0, where the time
\* elapsed is the time the stages took in this call and one tick more
AddElapsed(pl, before, tick) ==
    LET spent(name) == TimingGet(pl.stats.stage_timings_s, name)
                        - TimingGet(before.stats.stage_timings_s, name)
        stageNames == {"InputStage", "TransformStage", "OutputStage",
                       "BackupTransformStage"}
        RECURSIVE Sum(_)
        Sum(names) == IF names = {} THEN 0
                      ELSE LET n == CHOOSE n \in names : TRUE
                           IN  spent(n) + Sum(names \ {n})
    IN  [pl EXCEPT !.stats.total_time_s = @ + Sum(stageNames) + tick]

\* the try block of JSONAdapter.process, lines 392-425
JSONAdapter_try(pl, data, tick) ==
    LET Summarise(rs) ==
            IF ~rs.ok
            THEN [pl |-> rs.pl, ok |-> FALSE, exc |-> rs.exc,
                  data |-> IF IsDict(data) THEN rs.data ELSE data,
                  runs |-> 1]
            ELSE IF ~IsDict(rs.val)
            THEN [pl |-> rs.pl, ok |-> FALSE,
                  exc |-> NoAttribute(rs.val, "get"),
                  data |-> IF IsDict(data) THEN rs.data ELSE data,
                  runs |-> 1]
            ELSE [pl |-> [rs.pl EXCEPT !.stats.processed = @ + 1],
                  ok |-> TRUE, out |-> PyStr(JSONSummary(rs.val)),
                  data |-> IF IsDict(data) THEN rs.data ELSE data,
                  runs |-> 1]
        Run(parsed) ==
            IF ~parsed.ok
            THEN [pl |-> pl, ok |-> FALSE, exc |-> parsed.exc, data |-> data,
                  runs |-> 0]
            ELSE Summarise(run_stages(pl, parsed.val, IsDict(data), tick))
    IN  Run(IF IsStr(data) THEN json_loads(data)
            ELSE IF IsDict(data) THEN Returned(data)
            ELSE Raised(Exc("ValueError",
                    <<"Invalid", "data", "format", "for", "JSONAdapter">>)))

\* an except block without the inner try: the failure of the re-run escapes
JSONAdapter_except_escape(pl, data, e, tick) ==
    LET pl1 == [pl EXCEPT !.stats.failed = @ + 1]
        Recovered(rc) ==
            IF rc.ok
            THEN [pl |-> [rc.pl EXCEPT !.stats.processed = @ + 1],
                  ret |-> Returned(PyStr(
                            <<"Recovered", "JSON", "processing:">>
                                \o PyStrOf(rc.val))),
                  data |-> rc.data, runs |-> rc.runs,
                  recovers |-> rc.recovers,
                  primary |-> e, secondary |-> NoExc, entered |-> pl1]
            ELSE [pl |-> rc.pl, ret |-> Raised(rc.exc),
                  data |-> rc.data, runs |-> rc.runs,
                  recovers |-> rc.recovers,
                  primary |-> e, secondary |-> rc.exc, entered |-> pl1]
    IN  Recovered(recover(pl1, data, e, tick))

\* an except block whose error string describes the failure of the re-run
JSONAdapter_except_secondary(pl, data, e, tick) ==
    LET pl1 == [pl EXCEPT !.stats.failed = @ + 1]
        Recovered(rc) ==
            IF rc.ok
            THEN [pl |-> [rc.pl EXCEPT !.stats.processed = @ + 1],
                  ret |-> Returned(PyStr(
                            <<"Recovered", "JSON", "processing:">>
                                \o PyStrOf(rc.val))),
                  data |-> rc.data, runs |-> rc.runs,
                  recovers |-> rc.recovers,
                  primary |-> e, secondary |-> NoExc, entered |-> pl1]
            ELSE [pl |-> [rc.pl EXCEPT
                            !.stats.last_error = ErrorText(rc.exc)],
                  ret |-> Returned(PyStr(<<"JSONAdapter", "ERROR:">>
                                            \o ErrorText(rc.exc))),
                  data |-> rc.data, runs |-> rc.runs,
                  recovers |-> rc.recovers,
                  primary |-> e, secondary |-> rc.exc, entered |-> pl1]
    IN  Recovered(recover(pl1, data, e, tick))

\* the except block of JSONAdapter.process, lines 427-436, entered with the
\* exception e; entered is the pipeline as recover finds it
JSONAdapter_except(pl, data, e, tick) ==
    LET pl1 == [pl EXCEPT !.stats.failed = @ + 1]
        error == PyStr(<<"JSONAdapter", "ERROR:">> \o ErrorText(e))
        Recovered(rc) ==
            IF rc.ok
            THEN [pl |-> [rc.pl EXCEPT !.stats.processed = @ + 1],
                  ret |-> Returned(PyStr(
                            <<"Recovered", "JSON", "processing:">>
                                \o PyStrOf(rc.val))),
                  data |-> rc.data, runs |-> rc.runs,
                  recovers |-> rc.recovers,
                  primary |-> e, secondary |-> NoExc, entered |-> pl1]
            ELSE [pl |-> [rc.pl EXCEPT
                            !.stats.last_error = ErrorText(rc.exc)],
                  ret |-> Returned(error),
                  data |-> rc.data, runs |-> rc.runs,
                  recovers |-> rc.recovers,
                  primary |-> e, secondary |-> rc.exc, entered |-> pl1]
    IN  IF ~pl1.recovery_enabled
        THEN [pl |-> pl1, ret |-> Returned(error), data |-> data,
              runs |-> 0, recovers |-> 0, primary |-> e,
              secondary |-> NoExc, entered |-> pl1]
        ELSE Recovered(recover(pl1, data, e, tick))

\* a process whose elapsed time is added only when the try block succeeds
JSONAdapter_process_no_finally(pl, data, tick) ==
    LET Finish(body) ==
            [(IF body.ok
              THEN [pl |-> AddElapsed(body.pl, pl, tick),
                    ret |-> Returned(body.out),
                    data |-> body.data, runs |-> 0, recovers |-> 0,
                    primary |-> NoExc, secondary |-> NoExc, entered |-> pl]
              ELSE JSONAdapter_except(body.pl, body.data, body.exc, tick))
             EXCEPT !.runs = @ + body.runs]
    IN  Finish(JSONAdapter_try(pl, data, tick))

\* JSONAdapter.process(data)
JSONAdapter_process(pl, data, tick) ==
    LET Finish(body) ==
            [(IF body.ok
              THEN [pl |-> body.pl, ret |-> Returned(body.out),
                    data |-> body.data, runs |-> 0, recovers |-> 0,
                    primary |-> NoExc, secondary |-> NoExc, entered |-> pl]
              ELSE JSONAdapter_except(body.pl, body.data, body.exc, tick))
             EXCEPT !.pl = AddElapsed(@, pl, tick), !.runs = @ + body.runs]
    IN  Finish(JSONAdapter_try(pl, data, tick))

\* len([... for h in x]): a list gives its elements, a dict its keys, a str
\* its characters (here: its tokens); anything else is not iterable
NotIterable(x) ==
    Exc("TypeError", <<"'", TypeName(x), "'", "object", "is", "not",
                       "iterable">>)

\* the try block of CSVAdapter.process, lines 485-504
CSVAdapter_try(pl, data, tick) ==
    IF ~(IsList(data) \/ IsStr(data))
    THEN [pl |-> pl, ok |-> FALSE,
          exc |-> Exc("ValueError",
                      <<"Invalid", "data", "format", "for", "CSVAdapter">>),
          data |-> data, runs |-> 0]
    ELSE
    LET fromList == IsList(data) /\ Len(data.v) > 0
        line == IF IsList(data)
                THEN (IF Len(data.v) > 0 THEN data.v[1] ELSE PyStr(<<>>))
                ELSE data
        Count(rs, after, header) ==
            IF ~(IsList(header) \/ IsDict(header) \/ IsStr(header))
            THEN [pl |-> rs.pl, ok |-> FALSE, exc |-> NotIterable(header),
                  data |-> after, runs |-> 1]
            ELSE [pl |-> [rs.pl EXCEPT
                            !.stats.processed = @ + 1,
                            !.stats.stage_timings_s =
                                TimingSet(@, "csv_columns", Len(header.v))],
                  ok |-> TRUE,
                  out |-> PyStr(<<"User", "activity", "logged:", "1",
                                  "actions", "processed">>),
                  data |-> after, runs |-> 1]
        Log(rs, after) ==
            IF ~rs.ok
            THEN [pl |-> rs.pl, ok |-> FALSE, exc |-> rs.exc, data |-> after,
                  runs |-> 1]
            ELSE Count(rs, after,
                       IF IsDict(rs.val)
                       THEN DictGet(rs.val, PyStr(<<"csv_header">>),
                                    PyList(<<>>))
                       ELSE PyList(<<>>))
        Keep(rs) ==
            Log(rs, IF fromList THEN PyList([data.v EXCEPT ![1] = rs.data])
                    ELSE data)
    IN  Keep(run_stages(pl, line, fromList, tick))

\* an except block whose inner handler does not record the second error
CSVAdapter_except_silent(pl, data, e, tick) ==
    LET pl1 == [pl EXCEPT !.stats.failed = @ + 1]
        error == PyStr(<<"CSVAdapter", "ERROR:">> \o ErrorText(e))
        Recovered(rc) ==
            IF rc.ok
            THEN [pl |-> [rc.pl EXCEPT !.stats.processed = @ + 1],
                  ret |-> Returned(PyStr(
                            <<"Recovered", "CSV", "processing:">>
                                \o PyStrOf(rc.val))),
                  data |-> rc.data, runs |-> rc.runs,
                  recovers |-> rc.recovers,
                  primary |-> e, secondary |-> NoExc, entered |-> pl1]
            ELSE [pl |-> rc.pl, ret |-> Returned(error),
                  data |-> rc.data, runs |-> rc.runs,
                  recovers |-> rc.recovers,
                  primary |-> e, secondary |-> rc.exc, entered |-> pl1]
    IN  Recovered(recover(pl1, data, e, tick))

\* the except block of CSVAdapter.process, lines 506-515, entered with the
\* exception e; entered is the pipeline as recover finds it
CSVAdapter_except(pl, data, e, tick) ==
    LET pl1 == [pl EXCEPT !.stats.failed = @ + 1]
        error == PyStr(<<"CSVAdapter", "ERROR:">> \o ErrorText(e))
        Recovered(rc) ==
            IF rc.ok
            THEN [pl |-> [rc.pl EXCEPT !.stats.processed = @ + 1],
                  ret |-> Returned(PyStr(
                            <<"Recovered", "CSV", "processing:">>
                                \o PyStrOf(rc.val))),
                  data |-> rc.data, runs |-> rc.runs,
                  recovers |-> rc.recovers,
                  primary |-> e, secondary |-> NoExc, entered |-> pl1]
            ELSE [pl |-> [rc.pl EXCEPT
                            !.stats.last_error = ErrorText(rc.exc)],
                  ret |-> Returned(error),
                  data |-> rc.data, runs |-> rc.runs,
                  recovers |-> rc.recovers,
                  primary |-> e, secondary |-> rc.exc, entered |-> pl1]
    IN  IF ~pl1.recovery_enabled
        THEN [pl |-> pl1, ret |-> Returned(error), data |-> data,
              runs |-> 0, recovers |-> 0, primary |-> e,
              secondary |-> NoExc, entered |-> pl1]
        ELSE Recovered(recover(pl1, data, e, tick))

\* CSVAdapter.process(data)
CSVAdapter_process(pl, data, tick) ==
    LET Finish(body) ==
            [(IF body.ok
              THEN [pl |-> body.pl, ret |-> Returned(body.out),
                    data |-> body.data, runs |-> 0, recovers |-> 0,
                    primary |-> NoExc, secondary |-> NoExc, entered |-> pl]
              ELSE CSVAdapter_except(body.pl, body.data, body.exc, tick))
             EXCEPT !.pl = AddElapsed(@, pl, tick), !.runs = @ + body.runs]
    IN  Finish(CSVAdapter_try(pl, data, tick))

\* the elements a for loop over x visits: the elements of a list, the keys
\* of a dict
IterElems(x) ==
    IF IsDict(x) THEN [i \in 1..Len(x.v) |-> x.v[i].k] ELSE x.v

TempKey == PyStr(<<"temp">>)

\* the list comprehension of StreamAdapter.process, lines 578-585, in tenths
RECURSIVE Temps(_, _)
Temps(elems, i) ==
    IF i > Len(elems) THEN <<>>
    ELSE LET item == elems[i] IN
         (IF /\ IsDict(item)
             /\ HasKey(item, TempKey)
             /\ IsIntOrFloat(DictGet(item, TempKey, PyNone))
             /\ ~IsBool(DictGet(item, TempKey, PyNone))
          THEN <<ToFloat10(DictGet(item, TempKey, PyNone))>>
          ELSE <<>>) \o Temps(elems, i + 1)

RECURSIVE SumSeq(_)
SumSeq(q) == IF q = <<>> THEN 0 ELSE Head(q) + SumSeq(Tail(q))

\* f"{total / n:.1f}" for a total in tenths: the quotient rounded to the
\* nearest tenth, a tie going to the even tenth
FormatMean(total10, n) ==
    LET q == total10 \div n
        r == total10 % n
        up == (2 * r > n) \/ (2 * r = n /\ q % 2 = 1)
    IN  FormatTenths(IF up THEN q + 1 ELSE q)

\* a buffer that, once full, discards the new value instead of the oldest
RECURSIVE WindowExtend_keep_oldest(_, _)
WindowExtend_keep_oldest(window, temps) ==
    IF temps = <<>> THEN window
    ELSE WindowExtend_keep_oldest(
            IF Len(window) >= WindowMaxLen THEN window
            ELSE Append(window, Head(temps)),
            Tail(temps))

\* deque(maxlen=WindowMaxLen).append(x) for each x of temps
RECURSIVE WindowExtend(_, _)
WindowExtend(window, temps) ==
    IF temps = <<>> THEN window
    ELSE LET w == Append(window, Head(temps))
         IN  WindowExtend(IF Len(w) > WindowMaxLen THEN Tail(w) ELSE w,
                          Tail(temps))

InvalidStream ==
    Exc("ValueError", <<"Invalid", "data", "format", "for", "StreamAdapter">>)

\* the try block of StreamAdapter.process, lines 570-599
StreamAdapter_try(pl, data, tick) ==
    LET Fixed(rs) ==
            IF ~rs.ok
            THEN [pl |-> rs.pl, ok |-> FALSE, exc |-> rs.exc,
                  data |-> rs.data, runs |-> 1]
            ELSE [pl |-> [rs.pl EXCEPT !.stats.processed = @ + 1],
                  ok |-> TRUE,
                  out |-> PyStr(<<"Stream", "summary:", "5", "readings", ",",
                                  "avg:", "22.1degC">>),
                  data |-> rs.data, runs |-> 1]
        Mean(rs, temps) ==
            [pl |-> [rs.pl EXCEPT
                        !.window = WindowExtend(@, temps),
                        !.stats.processed = @ + 1],
             ok |-> TRUE,
             out |-> PyStr(
                IF temps # <<>>
                THEN <<"Stream", "summary:", FormatInt(Len(temps)),
                       "readings", ",", "avg:",
                       FormatMean(SumSeq(temps), Len(temps)) \o "degC">>
                ELSE <<"Stream", "summary:", "0", "readings", ",",
                       "avg:", "0.0degC">>),
             data |-> rs.data, runs |-> 1]
        Summary(rs) ==
            IF ~rs.ok
            THEN [pl |-> rs.pl, ok |-> FALSE, exc |-> rs.exc,
                  data |-> rs.data, runs |-> 1]
            ELSE Mean(rs, Temps(IterElems(rs.val), 1))
    IN  IF IsStr(data) THEN Fixed(run_stages(pl, data, TRUE, tick))
        ELSE IF IsList(data) THEN Summary(run_stages(pl, data, TRUE, tick))
        ELSE [pl |-> pl, ok |-> FALSE, exc |-> InvalidStream, data |-> data,
              runs |-> 0]

\* an except block that does not count the failure
StreamAdapter_except_uncounted(pl, data, e, tick) ==
    LET error == PyStr(<<"StreamAdapter", "ERROR:">> \o ErrorText(e))
        Recovered(rc) ==
            IF rc.ok
            THEN [pl |-> [rc.pl EXCEPT !.stats.processed = @ + 1],
                  ret |-> Returned(PyStr(
                            <<"Recovered", "stream", "processing:">>
                                \o PyStrOf(rc.val))),
                  data |-> rc.data, runs |-> rc.runs,
                  recovers |-> rc.recovers,
                  primary |-> e, secondary |-> NoExc, entered |-> pl]
            ELSE [pl |-> [rc.pl EXCEPT
                            !.stats.last_error = ErrorText(rc.exc)],
                  ret |-> Returned(error),
                  data |-> rc.data, runs |-> rc.runs,
                  recovers |-> rc.recovers,
                  primary |-> e, secondary |-> rc.exc, entered |-> pl]
    IN  Recovered(recover(pl, data, e, tick))

\* the except block of StreamAdapter.process, lines 601-610, entered with the
\* exception e; entered is the pipeline as recover finds it
StreamAdapter_except(pl, data, e, tick) ==
    LET pl1 == [pl EXCEPT !.stats.failed = @ + 1]
        error == PyStr(<<"StreamAdapter", "ERROR:">> \o ErrorText(e))
        Recovered(rc) ==
            IF rc.ok
            THEN [pl |-> [rc.pl EXCEPT !.stats.processed = @ + 1],
                  ret |-> Returned(PyStr(
                            <<"Recovered", "stream", "processing:">>
                                \o PyStrOf(rc.val))),
                  data |-> rc.data, runs |-> rc.runs,
                  recovers |-> rc.recovers,
                  primary |-> e, secondary |-> NoExc, entered |-> pl1]
            ELSE [pl |-> [rc.pl EXCEPT
                            !.stats.last_error = ErrorText(rc.exc)],
                  ret |-> Returned(error),
                  data |-> rc.data, runs |-> rc.runs,
                  recovers |-> rc.recovers,
                  primary |-> e, secondary |-> rc.exc, entered |-> pl1]
    IN  IF ~pl1.recovery_enabled
        THEN [pl |-> pl1, ret |-> Returned(error), data |-> data,
              runs |-> 0, recovers |-> 0, primary |-> e,
              secondary |-> NoExc, entered |-> pl1]
        ELSE Recovered(recover(pl1, data, e, tick))

\* StreamAdapter.process(data)
StreamAdapter_process(pl, data, tick) ==
    LET Finish(body) ==
            [(IF body.ok
              THEN [pl |-> body.pl, ret |-> Returned(body.out),
                    data |-> body.data, runs |-> 0, recovers |-> 0,
                    primary |-> NoExc, secondary |-> NoExc, entered |-> pl]
              ELSE StreamAdapter_except(body.pl, body.data, body.exc, tick))
             EXCEPT !.pl = AddElapsed(@, pl, tick), !.runs = @ + body.runs]
    IN  Finish(StreamAdapter_try(pl, data, tick))

\* pipeline.process(data), by the class of the adapter
AdapterProcess(pl, data, tick) ==
    CASE pl.kind = "JSONAdapter" -> JSONAdapter_process(pl, data, tick)
      [] pl.kind = "CSVAdapter" -> CSVAdapter_process(pl, data, tick)
      [] pl.kind = "StreamAdapter" -> StreamAdapter_process(pl, data, tick)

(***************************************************************************)
(* NexusManager.  The registry _pipelines is a function from the           *)
(* registered names to the pipelines.  process and chain also yield the    *)
(* log of the adapter calls they made.                                     *)
(***************************************************************************)
\* str(KeyError(text)) is repr(text)
NotFound(name) ==
    Exc("KeyError", ReprStr(<<"Pipeline", "'", name, "'", "not", "found">>))

\* a handler that returns nothing
ManagerError_none(e) == PyNone

ManagerError(e) == PyStr(<<"NexusManager", "ERROR:">> \o ErrorText(e))

\* a lookup that falls back on a registered pipeline when the name is unknown
NexusManager_process_fallback(pls, name, data, tick) ==
    IF name \notin DOMAIN pls /\ pls = <<>>
    THEN [pls |-> pls, ret |-> Returned(ManagerError(NotFound(name))),
          data |-> data,
          log |-> <<[name |-> name, found |-> FALSE, input |-> data,
                     ret |-> Returned(ManagerError(NotFound(name)))]>>]
    ELSE LET known == IF name \in DOMAIN pls THEN name
                      ELSE CHOOSE n \in DOMAIN pls : TRUE
             Done(r, ret) ==
                [pls |-> [pls EXCEPT ![known] = r.pl], ret |-> ret,
                 data |-> r.data,
                 log |-> <<[name |-> name, found |-> name \in DOMAIN pls,
                            input |-> data, ret |-> ret, pre |-> pls[known],
                            call |-> r]>>]
             Delegated(r) ==
                Done(r, IF name \in DOMAIN pls THEN r.ret
                        ELSE Returned(ManagerError(NotFound(name))))
         IN  Delegated(AdapterProcess(pls[known], data, tick))

\* NexusManager.process(name, data); the log entry of a call that found its
\* pipeline keeps the pipeline as it was (pre) and what the adapter did (call)
NexusManager_process(pls, name, data, tick) ==
    IF name \notin DOMAIN pls
    THEN [pls |-> pls, ret |-> Returned(ManagerError(NotFound(name))),
          data |-> data,
          log |-> <<[name |-> name, found |-> FALSE, input |-> data,
                     ret |-> Returned(ManagerError(NotFound(name)))]>>]
    ELSE LET Done(r, ret) ==
                [pls |-> [pls EXCEPT ![name] = r.pl], ret |-> ret,
                 data |-> r.data,
                 log |-> <<[name |-> name, found |-> TRUE, input |-> data,
                            ret |-> ret, pre |-> pls[name], call |-> r]>>]
             Delegated(r) ==
                Done(r, IF r.ret.ok THEN r.ret
                        ELSE Returned(ManagerError(r.ret.exc)))
         IN  Delegated(AdapterProcess(pls[name], data, tick))

\* a loop that stops at the first error string
RECURSIVE ChainFrom_stop(_, _, _, _, _, _)
ChainFrom_stop(pls, names, i, current, tick, log) ==
    IF i > Len(names)
       \/ (IsStr(current) /\ HasTok(current.v, "ERROR:"))
    THEN [pls |-> pls, ret |-> Returned(current), log |-> log]
    ELSE LET Step(r) ==
                IF ~r.ret.ok
                THEN [pls |-> r.pls, ret |-> r.ret, log |-> log \o r.log]
                ELSE ChainFrom_stop(r.pls, names, i + 1, r.ret.val, tick,
                                   log \o r.log)
         IN  Step(NexusManager_process(pls, names[i], current, tick))

\* a loop that hands the first input to every pipeline
RECURSIVE ChainFrom_stale(_, _, _, _, _, _)
ChainFrom_stale(pls, names, i, current, tick, log) ==
    IF i > Len(names)
    THEN [pls |-> pls, ret |-> Returned(current), log |-> log]
    ELSE LET Step(r) ==
                IF ~r.ret.ok
                THEN [pls |-> r.pls, ret |-> r.ret, log |-> log \o r.log]
                ELSE ChainFrom_stale(r.pls, names, i + 1, r.ret.val, tick,
                                    log \o r.log)
         IN  Step(NexusManager_process(pls, names[i], 
                    IF log = <<>> THEN current ELSE log[1].input, tick))

\* the loop of NexusManager.chain from names[i] on
RECURSIVE ChainFrom(_, _, _, _, _, _)
ChainFrom(pls, names, i, current, tick, log) ==
    IF i > Len(names)
    THEN [pls |-> pls, ret |-> Returned(current), log |-> log]
    ELSE LET Step(r) ==
                IF ~r.ret.ok
                THEN [pls |-> r.pls, ret |-> r.ret, log |-> log \o r.log]
                ELSE ChainFrom(r.pls, names, i + 1, r.ret.val, tick,
                              log \o r.log)
         IN  Step(NexusManager_process(pls, names[i], current, tick))

\* NexusManager.chain(names, data)
chain(pls, names, data, tick) == ChainFrom(pls, names, 1, data, tick, <<>>)

(***************************************************************************)
(* The manager as a state machine                                          *)
(***************************************************************************)
VARIABLES
    pipelines,  \* NexusManager._pipelines
    calls,      \* per registered name: the process calls made on its adapter
                \* (n) and how many of them were recovered (rescued)
    made,       \* process calls asked of the manager so far, those of chain
                \* included
    last        \* the last operation: its arguments, its result, its call
                \* log and the registry it started from

vars == <<pipelines, calls, made, last>>

MaxCalls == 3

\* the clock ticks one stage may take
Ticks == {1, 2}

Names == {"json", "csv", "stream"}

\* the adapters main() registers under these names
KindOf == [json |-> "JSONAdapter", csv |-> "CSVAdapter",
           stream |-> "StreamAdapter"]

Q == "\""
Key(word) == PyStr(<<word>>)

\* '{"sensor": "temp", "value": 23.5, "unit": "C"}'
TempJson ==
    PyStr(<<"{", Q, "sensor", Q, ":", Q, "temp", Q, ",",
            Q, "value", Q, ":", "23.5", ",",
            Q, "unit", Q, ":", Q, "C", Q, "}">>)
InvalidJson == PyStr(<<"INVALID_JSON">>)
HeaderLine == PyStr(<<"user", ",", "action", ",", "timestamp">>)
StreamText == PyStr(<<"Real-time", "sensor", "stream">>)
HotRecord ==
    PyDict(<<Item(Key("sensor"), Key("temp")), Item(Key("value"), PyInt(31)),
             Item(Key("unit"), Key("C"))>>)
Readings ==
    PyList(<<PyDict(<<Item(Key("temp"), PyFloat(200))>>),
             PyDict(<<Item(Key("humidity"), PyInt(50))>>)>>)

Inputs == {TempJson, InvalidJson, HotRecord, PyInt(42)}

RECURSIVE SeqsUpTo(_, _)
SeqsUpTo(set, n) ==
    IF n = 0 THEN {<<>>}
    ELSE LET shorter == SeqsUpTo(set, n - 1)
         IN  shorter \cup {Append(q, x) : q \in shorter, x \in set}

\* the number of entries of a call log that reached the adapter name
RECURSIVE Reached(_, _)
Reached(log, name) ==
    IF log = <<>> THEN 0
    ELSE (IF Head(log).found /\ Head(log).name = name THEN 1 ELSE 0)
            + Reached(Tail(log), name)

\* a call that caught a failure and whose recovery re-run succeeded
IsRescued(call) == call.primary # NoExc /\ call.secondary = NoExc /\ call.ret.ok

\* the number of such calls of a call log on the adapter name
RECURSIVE Rescued(_, _)
Rescued(log, name) ==
    IF log = <<>> THEN 0
    ELSE (IF Head(log).found /\ Head(log).name = name
             /\ IsRescued(Head(log).call) THEN 1 ELSE 0)
            + Rescued(Tail(log), name)

Counted(old, log) ==
    [n \in DOMAIN old |->
        [n |-> old[n].n + Reached(log, n),
         rescued |-> old[n].rescued + Rescued(log, n)]]

NoOp == [op |-> "init", names |-> <<>>, input |-> PyNone, tick |-> 0,
         ret |-> Returned(PyNone), log |-> <<>>, before |-> <<>>]

Init ==
    /\ pipelines = <<>>
    /\ calls = <<>>
    /\ made = 0
    /\ last = NoOp

\* manager.add_pipeline(name, pipeline) with a newly built adapter; each
\* name is registered once
AddPipeline(name) ==
    /\ name \notin DOMAIN pipelines
    /\ pipelines' = [n \in DOMAIN pipelines \cup {name} |->
                        IF n = name THEN NewPipeline(KindOf[name])
                        ELSE pipelines[n]]
    /\ calls' = [n \in DOMAIN calls \cup {name} |->
                    IF n = name THEN [n |-> 0, rescued |-> 0] ELSE calls[n]]
    /\ last' = [NoOp EXCEPT !.op = "add", !.names = <<name>>,
                            !.before = pipelines]
    /\ UNCHANGED made

\* manager.process(name, data)
Process(name, data, tick) ==
    /\ made < MaxCalls
    /\ \E r \in {NexusManager_process(pipelines, name, data, tick)} :
        /\ pipelines' = r.pls
        /\ calls' = Counted(calls, r.log)
        /\ last' = [op |-> "process", names |-> <<name>>, input |-> data,
                    tick |-> tick, ret |-> r.ret, log |-> r.log,
                    before |-> pipelines]
    /\ made' = made + 1

\* manager.chain(names, data)
Chain(names, data, tick) ==
    /\ \E r \in {chain(pipelines, names, data, tick)} :
        /\ pipelines' = r.pls
        /\ calls' = Counted(calls, r.log)
        /\ last' = [op |-> "chain", names |-> names, input |-> data,
                    tick |-> tick, ret |-> r.ret, log |-> r.log,
                    before |-> pipelines]
    /\ made' = made + Len(names)

Next ==
    \/ \E name \in Names : AddPipeline(name)
    \/ \E name \in Names, data \in Inputs : Process(name, data, 1)
    \/ \E names \in SeqsUpTo(Names, MaxCalls - made), data \in Inputs :
            Chain(names, data, 1)

Spec == Init /\ [][Next]_vars

(***************************************************************************)
(* One adapter on its own, called directly                                 *)
(***************************************************************************)
MaxAdapterCalls == 3

\* [{"temp": True}, {"temp": 24}, {"temp": 20.0}]
MixedReadings ==
    PyList(<<PyDict(<<Item(Key("temp"), PyBool(TRUE))>>),
             PyDict(<<Item(Key("temp"), PyInt(24))>>),
             PyDict(<<Item(Key("temp"), PyFloat(200))>>)>>)

RawValues ==
    Inputs \cup
    {HeaderLine, StreamText, Readings, MixedReadings, PyList(<<>>), PyNone,
     PyBool(TRUE),
     PyStr(<<Q, "abc", Q>>), PyStr(<<"[", "1", ",", "2", "]">>),
     PyList(<<PyInt(5)>>), PyList(<<PyStr(<<"a", ",", "b">>)>>)}

InitAdapter ==
    /\ \E name \in Names :
        /\ pipelines = [n \in {name} |-> NewPipeline(KindOf[name])]
        /\ calls = [n \in {name} |-> [n |-> 0, rescued |-> 0]]
    /\ made = 0
    /\ last = NoOp

\* pipeline.process(data) on the adapter registered under name
Call(name, data, tick) ==
    /\ made < MaxAdapterCalls
    /\ \E r \in {AdapterProcess(pipelines[name], data, tick)} :
        /\ pipelines' = [pipelines EXCEPT ![name] = r.pl]
        /\ last' = [op |-> "call", names |-> <<name>>, input |-> data,
                    tick |-> tick, ret |-> r.ret,
                    log |-> <<[name |-> name, found |-> TRUE,
                               input |-> data, ret |-> r.ret,
                               pre |-> pipelines[name], call |-> r]>>,
                    before |-> pipelines]
        /\ calls' = Counted(calls, last'.log)
    /\ made' = made + 1

NextAdapter ==
    \E name \in DOMAIN pipelines, data \in RawValues, tick \in Ticks :
        Call(name, data, tick)

SpecAdapter == InitAdapter /\ [][NextAdapter]_vars

(***************************************************************************)
(* Properties.  They read the record of the last operation: last.log has   *)
(* one entry per manager process call, and an entry that found its         *)
(* pipeline holds the adapter call (call) and the pipeline before it (pre).*)
(***************************************************************************)
FoundCalls == {i \in 1..Len(last.log) : last.log[i].found}

StartsWith(toks, prefix) ==
    Len(toks) >= Len(prefix) /\ SubSeq(toks, 1, Len(prefix)) = prefix

\* an "<Adapter> ERROR: ..." string of the adapter class kind
IsAdapterError(x, kind) == IsStr(x) /\ StartsWith(x.v, <<kind, "ERROR:">>)

BackupStages == <<"InputStage", "BackupTransformStage", "OutputStage">>

InvalidInputType == Exc("ValueError", <<"Invalid", "input", "type">>)

\* C1: every process call of a JSON, CSV or Stream adapter, whatever the raw
\* input (text, record, list, number, boolean, None) and whether or not the
\* adapter has recovered before, returns a str and raises nothing.
C1_ProcessReturnsString ==
    \A i \in FoundCalls :
        /\ last.log[i].call.ret.ok
        /\ IsStr(last.log[i].call.ret.val)

\* C1 witness: an adapter that had already recovered was given an
\* unsupported value and returned.
C1_Witness ==
    /\ last.op = "call"
    /\ last.log[1].pre.stats.recovered > 0
    /\ ~(IsStr(last.input) \/ IsDict(last.input) \/ IsList(last.input))
    /\ last.ret.ok

\* C2 as stated: NexusManager.process and NexusManager.chain return a str
\* and never raise, for every list of names, the empty list included.
C2_AlwaysString ==
    last.op \in {"process", "chain"} => last.ret.ok /\ IsStr(last.ret.val)

\* C2 amended: process and chain never raise; process returns a str; chain
\* returns a str when the list of names is not empty and returns its input
\* itself when the list is empty.
C2_StringUnlessEmptyChain ==
    /\ last.op = "process" => last.ret.ok /\ IsStr(last.ret.val)
    /\ last.op = "chain" =>
        /\ last.ret.ok
        /\ last.names # <<>> => IsStr(last.ret.val)
        /\ last.names = <<>> => last.ret.val = last.input

\* C2 witness: a chain over a registered and an unregistered name returned,
\* given a value that is not a str.
C2_Witness ==
    /\ last.op = "chain"
    /\ Len(last.names) = 2
    /\ last.log[1].found /\ ~last.log[2].found
    /\ ~IsStr(last.input)
    /\ last.ret.ok

\* C3: a process call that catches a failure has increased failed by exactly
\* 1 when recover is entered (recovered not yet touched); if the re-run
\* succeeds, processed and recovered each increase by exactly 1 in that
\* call; a call without a failure increases processed by exactly 1 and
\* leaves failed and recovered alone.
C3_CounterSteps ==
    \A i \in FoundCalls :
        LET c == last.log[i].call
            pre == last.log[i].pre.stats
            post == c.pl.stats
        IN  /\ c.primary # NoExc =>
                /\ post.failed = pre.failed + 1
                /\ c.entered.stats.failed = pre.failed + 1
                /\ c.entered.stats.recovered = pre.recovered
                /\ c.entered.stats.processed = pre.processed
                /\ c.secondary = NoExc =>
                     /\ post.processed = pre.processed + 1
                     /\ post.recovered = pre.recovered + 1
            /\ c.primary = NoExc =>
                /\ post.processed = pre.processed + 1
                /\ post.failed = pre.failed
                /\ post.recovered = pre.recovered

\* C3 witness: a call caught a failure and its recovery re-run succeeded.
C3_Witness ==
    /\ last.op = "call"
    /\ IsRescued(last.log[1].call)
    /\ pipelines[last.names[1]].stats.failed = 2

\* C4 as stated: after N process calls on one adapter, processed + failed
\* equals N.
C4_SumIsCalls ==
    \A n \in DOMAIN pipelines :
        pipelines[n].stats.processed + pipelines[n].stats.failed = calls[n].n

\* C4 amended: after N process calls on one adapter, processed + failed
\* equals N plus the number of those calls that failed and were recovered
\* (such a call increments both counters), so it lies between N and 2N.
C4_SumIsCallsPlusRescued ==
    \A n \in DOMAIN pipelines :
        LET st == pipelines[n].stats IN
        /\ st.processed + st.failed = calls[n].n + calls[n].rescued
        /\ calls[n].n <= st.processed + st.failed
        /\ st.processed + st.failed <= 2 * calls[n].n

\* C4 witness: three calls were made on an adapter: one plain success, one
\* recovered, one that ended in an error.
C4_Witness ==
    \E n \in DOMAIN pipelines :
        /\ calls[n].n = 3
        /\ calls[n].rescued = 1
        /\ pipelines[n].stats.processed = 2
        /\ pipelines[n].stats.failed = 2

\* C5: once recover has run on a pipeline (recovered > 0), its stage list is
\* the input stage, the backup transform, the output stage, in every later
\* state: same length, same input and output stages, the primary transform
\* never back; a later recover leaves the list as it is; and the re-run of
\* a recover fails only in the input stage, never in the backup transform.
C5_BackupIsPermanent ==
    /\ \A n \in DOMAIN pipelines :
        pipelines[n].stats.recovered > 0 =>
            pipelines[n].stages = BackupStages
    /\ \A i \in FoundCalls :
        LET c == last.log[i].call IN
        /\ (c.recovers > 0 /\ last.log[i].pre.stats.recovered > 0) =>
                c.pl.stages = last.log[i].pre.stages
        /\ last.log[i].pre.stats.recovered > 0 =>
                c.pl.stages = BackupStages
        /\ c.secondary # NoExc => c.secondary = InvalidInputType

\* C5 witness: recover ran a second time on a pipeline.
C5_Witness ==
    /\ last.op = "call"
    /\ last.log[1].pre.stats.recovered = 1
    /\ last.log[1].call.recovers = 1
    /\ pipelines[last.names[1]].stats.recovered = 2

\* C6: in one process call recover is entered exactly once if the first
\* attempt fails and never otherwise, also when the re-run fails; run_stages
\* is entered at most twice; the call returns.
C6_OneRecoveryPerCall ==
    \A i \in FoundCalls :
        LET c == last.log[i].call
            pre == last.log[i].pre.stats
        IN  /\ c.recovers = (IF c.primary # NoExc THEN 1 ELSE 0)
            /\ c.pl.stats.recovered = pre.recovered + c.recovers
            /\ c.runs <= 2
            /\ c.ret.ok

\* C6 witness: the re-run of a recovery failed.
C6_Witness ==
    /\ last.op = "call"
    /\ last.log[1].call.secondary # NoExc
    /\ last.log[1].call.recovers = 1

\* C7: when the re-run inside recover fails, last_error describes that
\* second error, processed is not incremented and the call returns the
\* "<Adapter> ERROR: ..." string of its adapter.
C7_SecondaryFailure ==
    \A i \in FoundCalls :
        LET c == last.log[i].call
            pre == last.log[i].pre
        IN  c.secondary # NoExc =>
                /\ c.pl.stats.last_error = ErrorText(c.secondary)
                /\ c.pl.stats.processed = pre.stats.processed
                /\ c.ret.ok
                /\ IsAdapterError(c.ret.val, pre.kind)

\* C7 witness: the re-run of a recovery failed in a CSVAdapter, with an
\* error other than the first one.
C7_Witness ==
    /\ last.op = "call"
    /\ last.log[1].pre.kind = "CSVAdapter"
    /\ last.log[1].call.secondary # NoExc
    /\ last.log[1].call.secondary # last.log[1].call.primary

\* process folded over the names from the left: the last name is applied to
\* the result of the fold of the names before it
RECURSIVE ProcessFold(_, _, _, _)
ProcessFold(pls, names, x, tick) ==
    IF names = <<>> THEN [pls |-> pls, ret |-> Returned(x)]
    ELSE LET front == ProcessFold(pls, SubSeq(names, 1, Len(names) - 1),
                                  x, tick)
             r == NexusManager_process(front.pls, names[Len(names)],
                                       front.ret.val, tick)
         IN  [pls |-> r.pls, ret |-> r.ret]

\* C8: from the same registry, chain([a, b], x) returns what
\* process(b, process(a, x)) returns and leaves every pipeline (Stats, stage
\* list, window) as those two calls leave it, also when process(a, x) is an
\* error string; chain(names, x) is the left fold of process over names.
C8_ChainIsFold ==
    last.op = "chain" =>
        /\ Len(last.names) = 2 =>
            LET first == NexusManager_process(last.before, last.names[1],
                                              last.input, last.tick)
                second == NexusManager_process(first.pls, last.names[2],
                                               first.ret.val, last.tick)
            IN  last.ret = second.ret /\ pipelines = second.pls
        /\ LET fold == ProcessFold(last.before, last.names, last.input,
                                   last.tick)
           IN  last.ret = fold.ret /\ pipelines = fold.pls

\* C8 witness: a chain of two registered pipelines whose first call returned
\* an adapter ERROR string.
C8_Witness ==
    /\ last.op = "chain"
    /\ Len(last.names) = 2
    /\ last.log[1].found /\ last.log[2].found
    /\ IsAdapterError(last.log[1].ret.val, last.log[1].pre.kind)

\* C9: chain(names, x) makes exactly one process call per name, in the order
\* of the list, the first on x and each later one on the result of the call
\* before it, error strings included; it never stops early.
C9_ChainCallsEveryName ==
    last.op = "chain" =>
        /\ Len(last.log) = Len(last.names)
        /\ \A i \in 1..Len(last.names) :
            /\ last.log[i].name = last.names[i]
            /\ last.log[i].found = (last.names[i] \in DOMAIN last.before)
            /\ last.log[i].input =
                  (IF i = 1 THEN last.input ELSE last.log[i - 1].ret.val)
        /\ last.names # <<>> =>
                last.ret = last.log[Len(last.log)].ret

\* C9 witness: the first name of a chain was not registered and the second
\* pipeline processed the not-found string.
C9_Witness ==
    /\ last.op = "chain"
    /\ Len(last.names) = 2
    /\ ~last.log[1].found /\ last.log[2].found
    /\ StartsWith(last.log[2].input.v, <<"NexusManager", "ERROR:">>)

\* C10: process with a name that is not registered returns the
\* "NexusManager ERROR: KeyError: ... not found" string and leaves the
\* registry and every registered pipeline (Stats, stage list, window) as
\* they were.
C10_NotFoundChangesNothing ==
    (last.op = "process" /\ last.names[1] \notin DOMAIN last.before) =>
        /\ last.ret.ok
        /\ IsStr(last.ret.val)
        /\ StartsWith(last.ret.val.v, <<"NexusManager", "ERROR:", "KeyError:">>)
        /\ HasTok(last.ret.val.v, last.names[1])
        /\ StartsWith(SubSeq(last.ret.val.v, Len(last.ret.val.v) - 2,
                             Len(last.ret.val.v)), <<"not", "found">>)
        /\ pipelines = last.before

\* C10 witness: an unregistered name was processed while a registered
\* pipeline had calls behind it.
C10_Witness ==
    /\ last.op = "process"
    /\ last.names[1] \notin DOMAIN pipelines
    /\ \E n \in DOMAIN pipelines : pipelines[n].stats.failed > 0

\* C11 as stated: an entry of a pipeline's stage_timings_s, once present, is
\* never removed and never decreases, whatever key it is stored under.
C11_TimingsNeverShrink ==
    [][\A n \in DOMAIN pipelines :
        \A k \in DOMAIN pipelines[n].stats.stage_timings_s :
            /\ k \in DOMAIN pipelines'[n].stats.stage_timings_s
            /\ pipelines'[n].stats.stage_timings_s[k]
                    >= pipelines[n].stats.stage_timings_s[k]]_vars

\* C11 witness: a CSVAdapter call succeeded and left a csv_columns entry
\* smaller than the one it found.
C11_Witness ==
    /\ last.op = "call"
    /\ last.log[1].pre.kind = "CSVAdapter"
    /\ last.log[1].call.primary = NoExc
    /\ "csv_columns" \in DOMAIN last.log[1].pre.stats.stage_timings_s
    /\ pipelines[last.names[1]].stats.stage_timings_s["csv_columns"]
            < last.log[1].pre.stats.stage_timings_s["csv_columns"]

\* the counters of the statistics a do not exceed those of b
CountersLeq(a, b) ==
    /\ a.processed <= b.processed
    /\ a.failed <= b.failed
    /\ a.recovered <= b.recovered

\* C12: over every process call on an adapter, whether it succeeds, is
\* recovered or ends in an error, processed, failed and recovered do not
\* decrease, neither from the state before the call to the state recover is
\* entered in nor from there to the state after the call; so processed +
\* failed does not decrease.
C12_CountersNeverDecrease ==
    [][\A n \in DOMAIN pipelines :
        /\ CountersLeq(pipelines[n].stats, pipelines'[n].stats)
        /\ pipelines[n].stats.processed + pipelines[n].stats.failed
                <= pipelines'[n].stats.processed + pipelines'[n].stats.failed
        /\ \A i \in 1..Len(last'.log) :
            (last'.log[i].found /\ last'.log[i].name = n) =>
                /\ CountersLeq(last'.log[i].pre.stats,
                               last'.log[i].call.entered.stats)
                /\ CountersLeq(last'.log[i].call.entered.stats,
                               last'.log[i].call.pl.stats)]_vars

\* C12 witness: an adapter has seen a plain success, a recovered call and a
\* call that ended in an error.
C12_Witness ==
    /\ last.op = "call"
    /\ last.log[1].call.secondary # NoExc
    /\ calls[last.names[1]].rescued >= 1
    /\ pipelines[last.names[1]].stats.processed >= 2

\* the positions of the elements of a list that are records with a numeric,
\* non-boolean temp field
NumericTemps(elems) ==
    {i \in 1..Len(elems) :
        /\ IsDict(elems[i])
        /\ HasKey(elems[i], TempKey)
        /\ DictGet(elems[i], TempKey, PyNone).t \in {"int", "float"}}

\* the sum, in tenths, of the temp fields at the positions in set
RECURSIVE TempTotal(_, _)
TempTotal(elems, set) ==
    IF set = {} THEN 0
    ELSE LET i == CHOOSE i \in set : TRUE
         IN  ToFloat10(DictGet(elems[i], TempKey, PyNone))
                + TempTotal(elems, set \ {i})

\* the summary the stream adapter is to give for a list: the count of the
\* numeric temps and their mean to one decimal
ExpectedSummary(elems) ==
    LET set == NumericTemps(elems) IN
    IF set = {}
    THEN PyStr(<<"Stream", "summary:", "0", "readings", ",", "avg:",
                 "0.0degC">>)
    ELSE PyStr(<<"Stream", "summary:", FormatInt(Cardinality(set)),
                 "readings", ",", "avg:",
                 FormatMean(TempTotal(elems, set), Cardinality(set))
                    \o "degC">>)

\* C13 as stated: in every state of a StreamAdapter, recovered before or not,
\* a list input is answered with the count and the mean of its numeric,
\* non-boolean temp fields (0 readings, 0.0 if there are none).
C13_StreamSummary ==
    \A i \in FoundCalls :
        (last.log[i].pre.kind = "StreamAdapter" /\ IsList(last.log[i].input))
            => last.log[i].ret = Returned(ExpectedSummary(last.log[i].input.v))

\* C13 for an adapter that has not recovered: the summary of a list input is
\* the expected one
C13_FreshStreamSummary ==
    \A i \in FoundCalls :
        (/\ last.log[i].pre.kind = "StreamAdapter"
         /\ IsList(last.log[i].input)
         /\ last.log[i].pre.stats.recovered = 0)
            => last.log[i].ret = Returned(ExpectedSummary(last.log[i].input.v))

\* C13 witness: a StreamAdapter that had recovered before was given a list
\* holding numeric temps and reported no reading.
C13_Witness ==
    /\ last.op = "call"
    /\ last.log[1].pre.kind = "StreamAdapter"
    /\ last.log[1].pre.stats.recovered > 0
    /\ IsList(last.input)
    /\ NumericTemps(last.input.v) # {}
    /\ last.ret = Returned(ExpectedSummary(<<>>))

\* a text of column names separated by commas on one line: no JSON
\* punctuation, no line break, no empty name
IsColumnLine(x) ==
    /\ IsStr(x)
    /\ x.v # <<>>
    /\ \A i \in 1..Len(x.v) : x.v[i] \notin {Q, "{", "}", "[", "]", ":", "\n"}
    /\ x.v[1] # "," /\ x.v[Len(x.v)] # ","
    /\ \A i \in 1..(Len(x.v) - 1) : ~(x.v[i] = "," /\ x.v[i + 1] = ",")

\* the number of names of such a text
Columns(toks) == 1 + Cardinality({i \in 1..Len(toks) : toks[i] = ","})

\* the csv_columns entry of a pipeline, -1 if it has none
CsvColumns(pl) ==
    IF "csv_columns" \in DOMAIN pl.stats.stage_timings_s
    THEN pl.stats.stage_timings_s["csv_columns"] ELSE -1

\* C14 as stated: after CSVAdapter.process on a line of k >= 1 column names,
\* in every state of the adapter, recovered before or not, the column count
\* recorded in the statistics is k.
C14_HeaderCount ==
    \A i \in FoundCalls :
        (last.log[i].pre.kind = "CSVAdapter" /\ IsColumnLine(last.log[i].input))
            => CsvColumns(last.log[i].call.pl) = Columns(last.log[i].input.v)

\* C14 for an adapter that has not recovered and a line of at least two
\* names: the recorded count is the number of names
C14_FreshHeaderCount ==
    \A i \in FoundCalls :
        (/\ last.log[i].pre.kind = "CSVAdapter"
         /\ IsColumnLine(last.log[i].input)
         /\ Columns(last.log[i].input.v) >= 2
         /\ last.log[i].pre.stats.recovered = 0)
            => CsvColumns(last.log[i].call.pl) = Columns(last.log[i].input.v)

\* C14 witness: a CSVAdapter that had recovered before processed a line of
\* three names and recorded 0 columns.
C14_Witness ==
    /\ last.op = "call"
    /\ last.log[1].pre.kind = "CSVAdapter"
    /\ last.log[1].pre.stats.recovered > 0
    /\ IsColumnLine(last.input)
    /\ Columns(last.input.v) = 3
    /\ last.log[1].call.primary = NoExc
    /\ CsvColumns(pipelines[last.names[1]]) = 0

(***************************************************************************)
(* One JSONAdapter given temperature records                               *)
(***************************************************************************)
MaxJsonCalls == 3

\* the values of the value field: around both ends of the normal range, as
\* float (in tenths) and as int, and a boolean
RecordValues ==
    {PyFloat(n10) : n10 \in {149, 150, 235, 300, 301}}
        \cup {PyInt(n) : n \in {14, 15, 30, 31}} \cup {PyBool(TRUE)}

\* the unit field: a text, or no unit field at all
NoUnit == "-"
RecordUnits == {"C", "c", "F", NoUnit}

\* {"sensor": "temp", "value": value, "unit": unit, "site": "lab"}
TempRecord(value, unit) ==
    PyDict(<<Item(Key("sensor"), Key("temp")), Item(Key("value"), value)>>
           \o (IF unit = NoUnit THEN <<>>
               ELSE <<Item(Key("unit"), Key(unit))>>)
           \o <<Item(Key("site"), Key("lab"))>>)

\* the same record as JSON text, for a value that is a number
TempRecordText(value, unit) ==
    PyStr(<<"{", Q, "sensor", Q, ":", Q, "temp", Q, ",",
            Q, "value", Q, ":",
            IF value.t = "float" THEN FormatTenths(value.v)
            ELSE FormatInt(value.v)>>
          \o (IF unit = NoUnit THEN <<>>
              ELSE <<",", Q, "unit", Q, ":", Q, unit, Q>>)
          \o <<"}">>)

\* inputs that are neither a record nor text that parses to a record: text
\* that parses to a JSON string, number or list, a list and a number
NonRecords ==
    {PyStr(<<Q, "abc", Q>>), PyStr(<<Q, "a", ",", "b", Q>>),
     PyStr(<<"42">>), PyStr(<<"[", "1", ",", "2", "]">>),
     PyList(<<PyInt(1), PyInt(2)>>), PyInt(42)}

JsonValues ==
    {TempRecord(value, unit) : value \in RecordValues, unit \in RecordUnits}
        \cup {TempRecordText(value, "C") : value \in RecordValues \ {PyBool(TRUE)}}
        \cup {TempRecordText(PyFloat(235), NoUnit)} \cup NonRecords

InitJson ==
    /\ pipelines = [n \in {"json"} |-> NewPipeline(KindOf["json"])]
    /\ calls = [n \in {"json"} |-> [n |-> 0, rescued |-> 0]]
    /\ made = 0
    /\ last = NoOp

\* json_pipeline.process(data) with a temperature record or a non-record
CallJson(data) ==
    /\ made < MaxJsonCalls
    /\ \E r \in {AdapterProcess(pipelines["json"], data, 1)} :
        /\ pipelines' = [pipelines EXCEPT !["json"] = r.pl]
        /\ last' = [op |-> "call", names |-> <<"json">>, input |-> data,
                    tick |-> 1, ret |-> r.ret,
                    log |-> <<[name |-> "json", found |-> TRUE,
                               input |-> data, ret |-> r.ret,
                               pre |-> pipelines["json"], call |-> r]>>,
                    before |-> pipelines]
        /\ calls' = Counted(calls, last'.log)
    /\ made' = made + 1

NextJson == \E data \in JsonValues : CallJson(data)

SpecJson == InitJson /\ [][NextJson]_vars

\* the record an input stands for: itself, or what its text parses to
RecordOf(x) ==
    IF ~IsStr(x) THEN x
    ELSE IF json_loads(x).ok THEN json_loads(x).val ELSE PyNone

\* a record whose sensor field is "temp" and whose value field is numeric
IsTempRecord(x) ==
    /\ IsDict(x)
    /\ DictGet(x, Key("sensor"), PyNone) = Key("temp")
    /\ DictGet(x, Key("value"), PyNone).t \in {"int", "float", "bool"}

\* the record has a unit field that reads C or c
InCelsius(x) == DictGet(x, Key("unit"), PyNone) \in {Key("C"), Key("c")}

\* the summary that states the value and whether it lies in [15, 30]
RangeSummary(value) ==
    PyStr(<<"Processed", "temperature", "reading:",
            FormatTenths(ToFloat10(value)) \o "degC", "(">>
          \o (IF NormalLow10 <= ToFloat10(value)
                 /\ ToFloat10(value) <= NormalHigh10
              THEN <<"Normal", "range">> ELSE <<"Out", "of", "range">>)
          \o <<")">>)

\* C15 as stated: for every record with sensor 'temp' and a numeric value,
\* whatever its other fields, the JSONAdapter returns the summary stating the
\* value with 'Normal range' if 15 <= value <= 30 and 'Out of range' if not.
C15_RangeForEveryTempRecord ==
    last.op = "call" =>
        LET rec == RecordOf(last.input) IN
        (IsStr(last.input) \/ IsDict(last.input)) /\ IsTempRecord(rec) =>
            last.ret = Returned(RangeSummary(DictGet(rec, Key("value"), PyNone)))

\* C15 amended: such a record gets that summary if and only if its unit
\* field reads C or c; without it the JSONAdapter returns the generic
\* "Processed JSON record: sensor=temp, value=..." summary, which names no
\* range.
C15_RangeForCelsiusRecord ==
    last.op = "call" =>
        LET rec == RecordOf(last.input) IN
        (IsStr(last.input) \/ IsDict(last.input)) /\ IsTempRecord(rec) =>
            /\ last.ret.ok
            /\ InCelsius(rec) =>
                last.ret.val = RangeSummary(DictGet(rec, Key("value"), PyNone))
            /\ ~InCelsius(rec) =>
                /\ StartsWith(last.ret.val.v,
                              <<"Processed", "JSON", "record:", "sensor=",
                                "temp", ",", "value=">>)
                /\ ~HasTok(last.ret.val.v, "range")

\* C15 witness: a JSONAdapter that had recovered before was given a record
\* with the value 30.0 in Celsius and answered 'Normal range'.
C15_Witness ==
    /\ last.op = "call"
    /\ last.log[1].pre.stats.recovered > 0
    /\ last.input = TempRecord(PyFloat(300), "C")
    /\ last.ret.ok
    /\ HasTok(last.ret.val.v, "Normal")

(***************************************************************************)
(* One adapter whose efficiency is read between its calls                  *)
(***************************************************************************)
MaxStatsCalls == 4

\* a float known as the quotient num / den
PyRatio(pair) == [t |-> "ratio", v |-> pair]

\* pipeline.stats.efficiency_pct() on the adapter registered under name
Efficiency(name) ==
    /\ last.op # "efficiency"
    /\ last' = [NoOp EXCEPT
                    !.op = "efficiency", !.names = <<name>>,
                    !.ret = Returned(PyRatio(efficiency_pct(
                                                pipelines[name].stats))),
                    !.before = pipelines]
    /\ UNCHANGED <<pipelines, calls, made>>

\* pipeline.process(data) between two readings
CallCounted(name, data) ==
    /\ made < MaxStatsCalls
    /\ \E r \in {AdapterProcess(pipelines[name], data, 1)} :
        /\ pipelines' = [pipelines EXCEPT ![name] = r.pl]
        /\ last' = [op |-> "call", names |-> <<name>>, input |-> data,
                    tick |-> 1, ret |-> r.ret,
                    log |-> <<[name |-> name, found |-> TRUE,
                               input |-> data, ret |-> r.ret,
                               pre |-> pipelines[name], call |-> r]>>,
                    before |-> pipelines]
        /\ calls' = Counted(calls, last'.log)
    /\ made' = made + 1

NextStats ==
    \/ \E name \in DOMAIN pipelines, data \in Inputs : CallCounted(name, data)
    \/ \E name \in DOMAIN pipelines : Efficiency(name)

SpecStats == InitAdapter /\ [][NextStats]_vars

\* C16: efficiency_pct() is exactly 100 when processed = failed = 0 and is
\* processed / (processed + failed) * 100 otherwise (the quotient num / den
\* satisfies num * (processed + failed) = processed * 100 * den); read in
\* any reachable state it lies between 0 and 100.
C16_Efficiency ==
    /\ \A n \in DOMAIN pipelines :
        LET st == pipelines[n].stats
            e == efficiency_pct(st)
        IN  /\ e[2] > 0
            /\ 0 <= e[1] /\ e[1] <= 100 * e[2]
    /\ last.op = "efficiency" =>
        LET st == pipelines[last.names[1]].stats
            e == last.ret.val.v
        IN  /\ (st.processed = 0 /\ st.failed = 0) => e = <<100, 1>>
            /\ st.processed + st.failed > 0 =>
                /\ e[2] > 0
                /\ e[1] * (st.processed + st.failed)
                        = st.processed * 100 * e[2]
            /\ 0 <= e[1] /\ e[1] <= 100 * e[2]

\* C16 witness: the efficiency was read on an adapter with two calls
\* processed and one failed, and is strictly between 0 and 100.
C16_Witness ==
    /\ last.op = "efficiency"
    /\ pipelines[last.names[1]].stats.processed = 2
    /\ pipelines[last.names[1]].stats.failed = 1
    /\ 0 < last.ret.val.v[1]
    /\ last.ret.val.v[1] < 100 * last.ret.val.v[2]

\* the input is a record or text that parses to a record
IsRecordInput(x) == (IsStr(x) \/ IsDict(x)) /\ IsDict(RecordOf(x))

\* the return value is one of the two summaries of a processed record
IsNormalSummary(ret) == ret.ok /\ IsStr(ret.val) /\ Head(ret.val.v) = "Processed"

\* C17: every input that is neither a record nor text that parses to a
\* record (text that parses to a JSON string, number or list included) is a
\* failure of JSONAdapter.process: failed is incremented and no normal
\* summary is returned.
C17_NonRecordFails ==
    last.op = "call" /\ ~IsRecordInput(last.input) =>
        /\ last.log[1].call.pl.stats.failed
                = last.log[1].pre.stats.failed + 1
        /\ ~IsNormalSummary(last.ret)

\* what does hold: on a JSONAdapter that has never recovered, such an input
\* fails unless it is text that parses to a JSON string containing a comma
\* or the word stream, which the transform stage turns into a record.
C17_FreshNonRecordFails ==
    (/\ last.op = "call"
     /\ ~IsRecordInput(last.input)
     /\ last.log[1].pre.stats.recovered = 0
     /\ ~(IsStr(last.input) /\ IsStr(RecordOf(last.input))
            /\ HasTok(RecordOf(last.input).v, ","))) =>
        /\ last.log[1].call.pl.stats.failed
                = last.log[1].pre.stats.failed + 1
        /\ ~IsNormalSummary(last.ret)

\* C17 witness: a fresh JSONAdapter given text that parses to the JSON
\* string a,b returned the generic summary of a record and counted no
\* failure.
C17_Witness ==
    /\ last.op = "call"
    /\ last.input = PyStr(<<Q, "a", ",", "b", Q>>)
    /\ last.log[1].pre.stats.recovered = 0
    /\ last.log[1].call.pl.stats.failed = 0
    /\ last.log[1].call.pl.stats.processed = last.log[1].pre.stats.processed + 1
    /\ IsNormalSummary(last.ret)

\* text, or a non-empty list whose first element is text
IsHeaderInput(x) ==
    \/ IsStr(x)
    \/ IsList(x) /\ Len(x.v) > 0 /\ IsStr(x.v[1])

\* C18: every input other than text or a non-empty list whose first element
\* is text is a failure of CSVAdapter.process (failed is incremented); the
\* empty list and a list whose first element is not text are failures.
C18_OtherInputsFail ==
    (/\ last.op = "call"
     /\ last.log[1].pre.kind = "CSVAdapter"
     /\ ~IsHeaderInput(last.input)) =>
        last.log[1].call.pl.stats.failed = last.log[1].pre.stats.failed + 1

\* what does hold: an input that is neither text nor a list, and a list
\* whose first element is neither text, record nor list, is a failure.
C18_UnsupportedInputsFail ==
    (/\ last.op = "call"
     /\ last.log[1].pre.kind = "CSVAdapter"
     /\ \/ ~(IsStr(last.input) \/ IsList(last.input))
        \/ /\ IsList(last.input) /\ Len(last.input.v) > 0
           /\ ~(IsStr(last.input.v[1]) \/ IsDict(last.input.v[1])
                    \/ IsList(last.input.v[1]))) =>
        last.log[1].call.pl.stats.failed = last.log[1].pre.stats.failed + 1

\* C18 witness: a fresh CSVAdapter given the empty list logged one action
\* and counted no failure.
C18_Witness ==
    /\ last.op = "call"
    /\ last.log[1].pre.kind = "CSVAdapter"
    /\ last.input = PyList(<<>>)
    /\ last.log[1].pre.stats.recovered = 0
    /\ last.log[1].call.pl.stats.failed = last.log[1].pre.stats.failed
    /\ last.log[1].call.pl.stats.processed = last.log[1].pre.stats.processed + 1
    /\ last.ret = Returned(PyStr(<<"User", "activity", "logged:", "1",
                                   "actions", "processed">>))

\* C19: no stage's process modifies the value it is given, hence after any
\* adapter process call (one that recovers and re-runs included) the value
\* the caller passed in has the same keys and values as before the call.
C19_ArgumentUnchanged ==
    last.op = "call" =>
        /\ \A stage \in {"InputStage", "TransformStage", "OutputStage",
                         "BackupTransformStage"} :
                StageProcess(stage, last.input).arg = last.input
        /\ last.log[1].call.data = last.input

\* what does hold: the input, transform and output stages leave their
\* argument alone, and a call in which the backup transform stage was not
\* part of the pipeline at any time leaves the caller's value alone.
C19_UnchangedWithoutBackup ==
    /\ last.op = "call" =>
            \A stage \in {"InputStage", "TransformStage", "OutputStage"} :
                StageProcess(stage, last.input).arg = last.input
    /\ (/\ last.op = "call"
        /\ last.log[1].pre.stats.recovered = 0
        /\ last.log[1].call.recovers = 0) =>
            last.log[1].call.data = last.input

\* C19 witness: a fresh adapter was given a record it could not process,
\* recovered, and the caller's record has gained the key _meta.
C19_Witness ==
    /\ last.op = "call"
    /\ last.input = HotRecord
    /\ last.log[1].pre.stats.recovered = 0
    /\ last.log[1].call.recovers = 1
    /\ DictGet(last.input, MetaKey, PyNone) = PyNone
    /\ DictGet(last.log[1].call.data, MetaKey, PyNone) = Meta("backup")

(***************************************************************************)
(* One StreamAdapter fed batches of readings large enough to fill its      *)
(* rolling buffer; calls["stream"].arrived keeps every reading extracted   *)
(* so far, in arrival order.                                               *)
(***************************************************************************)
MaxWindowCalls == 4
BatchSizes == {0, 1, 20, 30}

\* a list of size readings whose temps are start + 1 .. start + size
Batch(start, size) ==
    PyList([i \in 1..size |-> PyDict(<<Item(TempKey, PyInt(start + i))>>)])

\* the inputs of the call made after n earlier calls: batches whose temps
\* tell the call they came with, a list with a reading that is no number,
\* text, and a number, which makes the adapter recover
WindowInputs(n) ==
    {Batch(100 * n, size) : size \in BatchSizes}
        \cup {MixedReadings, StreamText, PyInt(42)}

InitWindow ==
    /\ pipelines = [n \in {"stream"} |-> NewPipeline(KindOf["stream"])]
    /\ calls = [n \in {"stream"} |->
                    [n |-> 0, rescued |-> 0, arrived |-> <<>>]]
    /\ made = 0
    /\ last = NoOp

\* stream_pipeline.process(data)
CallWindow(data) ==
    /\ made < MaxWindowCalls
    /\ \E r \in {AdapterProcess(pipelines["stream"], data, 1)} :
        /\ pipelines' = [pipelines EXCEPT !["stream"] = r.pl]
        /\ last' = [op |-> "call", names |-> <<"stream">>, input |-> data,
                    tick |-> 1, ret |-> r.ret,
                    log |-> <<[name |-> "stream", found |-> TRUE,
                               input |-> data, ret |-> r.ret,
                               pre |-> pipelines["stream"], call |-> r]>>,
                    before |-> pipelines]
        /\ calls' = [n \in {"stream"} |->
                        [n |-> calls[n].n + 1,
                         rescued |-> calls[n].rescued
                                        + (IF IsRescued(r) THEN 1 ELSE 0),
                         arrived |-> calls[n].arrived \o
                            (IF IsList(data) /\ r.recovers = 0
                                /\ pipelines[n].stages = DefaultStages
                             THEN Temps(data.v, 1) ELSE <<>>)]]
    /\ made' = made + 1

NextWindow == \E data \in WindowInputs(made) : CallWindow(data)

SpecWindow == InitWindow /\ [][NextWindow]_vars

\* the last n elements of q, all of q if it has fewer
LastN(q, n) ==
    IF Len(q) <= n THEN q ELSE SubSeq(q, Len(q) - n + 1, Len(q))

\* C20: the rolling buffer of the StreamAdapter never holds more than 50
\* values; after any sequence of process calls it holds the most recently
\* extracted readings in arrival order, the oldest evicted first; a text
\* input appends nothing to it.
C20_RollingWindow ==
    /\ Len(pipelines["stream"].window) <= 50
    /\ pipelines["stream"].window = LastN(calls["stream"].arrived, 50)
    /\ (last.op = "call" /\ IsStr(last.input)) =>
            pipelines["stream"].window = last.log[1].pre.window

\* C20 witness: more than 50 readings have arrived, the buffer holds 50 and
\* no longer the first one, and the last call was given text.
C20_Witness ==
    /\ last.op = "call"
    /\ last.input = StreamText
    /\ Len(calls["stream"].arrived) > 50
    /\ Len(pipelines["stream"].window) = 50
    /\ Head(pipelines["stream"].window) # Head(calls["stream"].arrived)

(***************************************************************************)
(* Two process calls on one JSONAdapter, each a sequence of steps: the     *)
(* statements self.stats.<counter> += 1 are a read of the counter followed *)
(* by a write of the value read plus one, and the steps of the two calls   *)
(* interleave (mode "interleaved") or a call starts only when no other is  *)
(* in flight (mode "serial").  last.th keeps each call's position (pc),    *)
(* its input, the counter value it read (tmp) and the exception it caught. *)
(***************************************************************************)
Threads == {"t1", "t2"}
Modes == {"serial", "interleaved"}

\* a process call may start: always when calls interleave; when calls are
\* serialized only while no other call is in flight
MayStart_unlocked(t) == TRUE

MayStart(t) ==
    \/ last.mode = "interleaved"
    \/ \A u \in Threads \ {t} : last.th[u].pc \in {"idle", "done"}

InitThreads ==
    /\ pipelines = [n \in {"json"} |-> NewPipeline(KindOf["json"])]
    /\ calls = [n \in {"json"} |-> [n |-> 0, rescued |-> 0]]
    /\ made = 0
    /\ \E mode \in Modes, input \in [Threads -> Inputs] :
        last = [op |-> "threads", mode |-> mode,
                th |-> [t \in Threads |->
                            [pc |-> "idle", input |-> input[t], tmp |-> 0,
                             exc |-> NoExc, rescued |-> FALSE]]]

\* the call of thread t moves to pc
Goto(t, pc) == [last EXCEPT !.th[t].pc = pc]

\* lines 391-423: the try block up to the statement that counts the call as
\* processed; the stage timings of run_stages are written here
TryBody(t) ==
    /\ last.th[t].pc = "idle"
    /\ MayStart(t)
    /\ \E body \in {JSONAdapter_try(pipelines["json"], last.th[t].input, 1)} :
        /\ pipelines' = [pipelines EXCEPT !["json"].stats.stage_timings_s =
                            body.pl.stats.stage_timings_s]
        /\ last' = IF body.ok THEN Goto(t, "read_processed")
                   ELSE [Goto(t, "read_failed") EXCEPT !.th[t].exc = body.exc]
    /\ UNCHANGED <<calls, made>>

\* the read half of self.stats.<counter> += 1 at position pc
ReadCounter(t, pc, counter, next) ==
    /\ last.th[t].pc = pc
    /\ last' = [Goto(t, next) EXCEPT
                    !.th[t].tmp = pipelines["json"].stats[counter]]
    /\ UNCHANGED <<pipelines, calls, made>>

\* the write half of self.stats.<counter> += 1 at position pc
WriteCounter(t, pc, counter, next) ==
    /\ last.th[t].pc = pc
    /\ pipelines' = [pipelines EXCEPT
                        !["json"].stats[counter] = last.th[t].tmp + 1]
    /\ last' = Goto(t, next)
    /\ UNCHANGED <<calls, made>>

\* lines 424 and 432: self.stats.processed += 1
ReadProcessed(t) ==
    ReadCounter(t, "read_processed", "processed", "write_processed")
WriteProcessed(t) ==
    WriteCounter(t, "write_processed", "processed", "finally")

\* line 428: self.stats.failed += 1
ReadFailed(t) == ReadCounter(t, "read_failed", "failed", "write_failed")
WriteFailed(t) == WriteCounter(t, "write_failed", "failed", "read_recovered")

\* line 330: self.stats.recovered += 1
ReadRecovered(t) ==
    ReadCounter(t, "read_recovered", "recovered", "write_recovered")
WriteRecovered(t) ==
    WriteCounter(t, "write_recovered", "recovered", "swap")

\* lines 331-341 and 433-435: last_error, the swap of the stage list and the
\* re-run of the stages on the raw input; a failing re-run sets last_error
SwapAndRerun(t) ==
    /\ last.th[t].pc = "swap"
    /\ \E rs \in {run_stages(
                    [pipelines["json"] EXCEPT
                        !.stats.last_error = ErrorText(last.th[t].exc),
                        !.stages = SwapTransform(@)],
                    last.th[t].input, TRUE, 1)} :
        /\ pipelines' = [pipelines EXCEPT !["json"] =
                            IF rs.ok THEN rs.pl
                            ELSE [rs.pl EXCEPT !.stats.last_error =
                                                    ErrorText(rs.exc)]]
        /\ last' = IF rs.ok
                   THEN [Goto(t, "read_processed") EXCEPT
                            !.th[t].rescued = TRUE]
                   ELSE Goto(t, "finally")
    /\ UNCHANGED <<calls, made>>

\* lines 437-438: the finally clause; the call returns
Finally(t) ==
    /\ last.th[t].pc = "finally"
    /\ pipelines' = [pipelines EXCEPT !["json"].stats.total_time_s = @ + 1]
    /\ last' = Goto(t, "done")
    /\ calls' = [calls EXCEPT
                    !["json"].n = @ + 1,
                    !["json"].rescued =
                        @ + (IF last.th[t].rescued THEN 1 ELSE 0)]
    /\ made' = made + 1

NextThreads ==
    \E t \in Threads :
        \/ TryBody(t)
        \/ ReadProcessed(t)
        \/ WriteProcessed(t)
        \/ ReadFailed(t)
        \/ WriteFailed(t)
        \/ ReadRecovered(t)
        \/ WriteRecovered(t)
        \/ SwapAndRerun(t)
        \/ Finally(t)

SpecThreads == InitThreads /\ [][NextThreads]_vars

\* the statistics after the call with input first and then the call with
\* input second, one after the other, on a new JSONAdapter
SerialStats(first, second) ==
    AdapterProcess(
        AdapterProcess(NewPipeline(KindOf["json"]), first, 1).pl,
        second, 1).pl.stats

Counters == {"processed", "failed", "recovered"}

\* both calls have returned and some counter is smaller than under either
\* serial order of the two calls
LostIncrement ==
    /\ last.op = "threads"
    /\ \A t \in Threads : last.th[t].pc = "done"
    /\ \E c \in Counters :
        /\ pipelines["json"].stats[c]
                < SerialStats(last.th["t1"].input, last.th["t2"].input)[c]
        /\ pipelines["json"].stats[c]
                < SerialStats(last.th["t2"].input, last.th["t1"].input)[c]

\* C21: when the calls on one pipeline are serialized no state with a lost
\* increment is reachable, and the counters of the two finished calls are
\* those of one of the two serial orders; when the calls interleave at the
\* read and write of a counter such a state is reachable (C21_Witness).
C21_SerializedLosesNothing ==
    (last.op = "threads" /\ last.mode = "serial") =>
        /\ ~LostIncrement
        /\ (\A t \in Threads : last.th[t].pc = "done") =>
            \E o \in {<<"t1", "t2">>, <<"t2", "t1">>} :
                \A c \in Counters :
                    pipelines["json"].stats[c]
                        = SerialStats(last.th[o[1]].input,
                                      last.th[o[2]].input)[c]

\* C21 witness: two interleaved calls have both returned and a counter is
\* smaller than under every serial order.
C21_Witness ==
    /\ last.op = "threads"
    /\ last.mode = "interleaved"
    /\ LostIncrement

\* the word an adapter class puts into its "Recovered ... processing:" string
RecoveredWord(kind) ==
    CASE kind = "JSONAdapter" -> "JSON"
      [] kind = "CSVAdapter" -> "CSV"
      [] kind = "StreamAdapter" -> "stream"

\* C22: recover increments recovered, sets last_error to the primary error,
\* swaps the transform stage for the backup and then re-runs the stages on
\* the raw input given to process: a re-run that succeeds returns what the
\* backup pipeline makes of the raw input and leaves last_error at the
\* primary error; when the re-run fails the recovered increment and the
\* swap stay in effect.
C22_RecoverOrder ==
    (last.op = "call" /\ last.log[1].call.recovers > 0) =>
        LET c == last.log[1].call
            kind == last.log[1].pre.kind
        IN  /\ c.recovers = 1
            /\ c.pl.stats.recovered = c.entered.stats.recovered + 1
            /\ c.pl.stats.recovered = last.log[1].pre.stats.recovered + 1
            /\ c.pl.stages = BackupStages
            /\ c.secondary = NoExc =>
                /\ c.pl.stats.last_error = ErrorText(c.primary)
                /\ c.ret = Returned(PyStr(
                        <<"Recovered", RecoveredWord(kind), "processing:">>
                            \o PyRepr(BackupTransformStage_process(
                                        last.input).val)))
                /\ TimingGet(c.pl.stats.stage_timings_s,
                             "BackupTransformStage")
                        >= TimingGet(c.entered.stats.stage_timings_s,
                                     "BackupTransformStage") + last.tick
            /\ c.secondary # NoExc =>
                /\ c.secondary = InvalidInputType
                /\ ~(IsStr(last.input) \/ IsDict(last.input)
                        \/ IsList(last.input))

\* C22 witness: an adapter with the default stages was given a number; the
\* re-run of recover failed, and the adapter is left with recovered
\* incremented and the backup transform in place.
C22_Witness ==
    /\ last.op = "call"
    /\ last.log[1].pre.stages = DefaultStages
    /\ last.log[1].call.recovers = 1
    /\ last.log[1].call.secondary # NoExc
    /\ pipelines[last.names[1]].stages = BackupStages
    /\ pipelines[last.names[1]].stats.recovered
            = last.log[1].pre.stats.recovered + 1

(***************************************************************************)
(* run_stages on pipelines built with a stage list of their own            *)
(* (ProcessingPipeline.__init__ takes the list as its argument stages):    *)
(* lists of distinct stage classes in any order, so that a stage other     *)
(* than the first can be the one that raises.                              *)
(***************************************************************************)
MaxStages == 3
MaxRuns == 2

StageClasses ==
    {"InputStage", "TransformStage", "OutputStage", "BackupTransformStage"}

\* the stage lists: up to MaxStages stages of distinct classes
StageLists ==
    {s \in UNION {[1..n -> StageClasses] : n \in 1..MaxStages} :
        \A i, j \in 1..Len(s) : i # j => s[i] # s[j]}

StageInputs == {TempJson, HeaderLine, HotRecord, Readings, PyInt(42), PyNone}

InitStages ==
    /\ \E stages \in StageLists :
        pipelines = [n \in {"custom"} |->
                        [NewPipeline("ProcessingPipeline") EXCEPT
                            !.stages = stages]]
    /\ calls = [n \in {"custom"} |-> [n |-> 0, rescued |-> 0]]
    /\ made = 0
    /\ last = NoOp

\* pipeline.run_stages(data); last.log lists the stages whose process was
\* entered
RunStages(data, tick) ==
    /\ made < MaxRuns
    /\ \E rs \in {run_stages(pipelines["custom"], data, TRUE, tick)} :
        /\ pipelines' = [pipelines EXCEPT !["custom"] = rs.pl]
        /\ last' = [NoOp EXCEPT
                        !.op = "run_stages", !.names = <<"custom">>,
                        !.input = data, !.tick = tick,
                        !.ret = IF rs.ok THEN Returned(rs.val)
                                ELSE Raised(rs.exc),
                        !.log = rs.invoked,
                        !.before = pipelines]
    /\ calls' = [calls EXCEPT !["custom"].n = @ + 1]
    /\ made' = made + 1

NextStages == \E data \in StageInputs, tick \in Ticks : RunStages(data, tick)

SpecStages == InitStages /\ [][NextStages]_vars

\* the value the first n stages of the list hand on when given data, each
\* stage receiving what the one before it returned; None past a stage that
\* raised
RECURSIVE Handed(_, _, _)
Handed(stages, n, data) ==
    IF n = 0 THEN Returned(data)
    ELSE LET Through(prev) ==
                IF ~prev.ok THEN prev
                ELSE IF StageProcess(stages[n], prev.val).ok
                THEN Returned(StageProcess(stages[n], prev.val).val)
                ELSE Raised(StageProcess(stages[n], prev.val).exc)
         IN  Through(Handed(stages, n - 1, data))

\* C23: if stage i raises during run_stages, no later stage is invoked in
\* that run and the timing entries of stage i and of the later stages are
\* not updated by the run, while the timing added for the stages before i
\* is kept; if no stage raises, the stages run in list order, each given
\* the output of the one before, and the last output is returned.
C23_AbortKeepsEarlierTimings ==
    last.op = "run_stages" =>
        LET stages == pipelines["custom"].stages
            old == last.before["custom"].stats.stage_timings_s
            new == pipelines["custom"].stats.stage_timings_s
            i == Len(last.log)
        IN  /\ last.log = SubSeq(stages, 1, i)
            /\ last.ret.ok =>
                /\ i = Len(stages)
                /\ last.ret = Handed(stages, Len(stages), last.input)
                /\ \A j \in 1..Len(stages) :
                    TimingGet(new, stages[j])
                        = TimingGet(old, stages[j]) + last.tick
            /\ ~last.ret.ok =>
                /\ i >= 1
                /\ Handed(stages, i - 1, last.input).ok
                /\ last.ret = Handed(stages, i, last.input)
                /\ \A j \in 1..(i - 1) :
                    TimingGet(new, stages[j])
                        = TimingGet(old, stages[j]) + last.tick
                /\ \A j \in i..Len(stages) :
                    /\ TimingGet(new, stages[j]) = TimingGet(old, stages[j])
                    /\ (stages[j] \in DOMAIN new) = (stages[j] \in DOMAIN old)

\* C23 witness: the second of three stages raised; the first stage's timing
\* grew by the run's tick, the third stage was not invoked and neither the
\* second nor the third has a timing entry.
C23_Witness ==
    /\ last.op = "run_stages"
    /\ ~last.ret.ok
    /\ Len(pipelines["custom"].stages) = 3
    /\ Len(last.log) = 2
    /\ TimingGet(pipelines["custom"].stats.stage_timings_s,
                 pipelines["custom"].stages[1])
        = TimingGet(last.before["custom"].stats.stage_timings_s,
                    pipelines["custom"].stages[1]) + last.tick
    /\ pipelines["custom"].stages[2]
            \notin DOMAIN pipelines["custom"].stats.stage_timings_s
    /\ pipelines["custom"].stages[3]
            \notin DOMAIN pipelines["custom"].stats.stage_timings_s

\* C24: at every call boundary of every adapter failed = recovered:
\* recovery is always enabled, so every failure enters recover once, and
\* recovered counts the recovery attempts, those whose re-run fails
\* included.
C24_FailedEqualsRecovered ==
    /\ \A n \in DOMAIN pipelines :
        /\ pipelines[n].recovery_enabled
        /\ pipelines[n].stats.failed = pipelines[n].stats.recovered
    /\ last.op = "call" =>
        /\ (last.log[1].call.primary # NoExc)
                = (last.log[1].call.recovers = 1)
        /\ last.log[1].call.recovers = 1 =>
            /\ last.log[1].call.pl.stats.failed
                    = last.log[1].pre.stats.failed + 1
            /\ last.log[1].call.pl.stats.recovered
                    = last.log[1].pre.stats.recovered + 1
        /\ last.log[1].call.recovers = 0 =>
            /\ last.log[1].call.pl.stats.failed = last.log[1].pre.stats.failed
            /\ last.log[1].call.pl.stats.recovered
                    = last.log[1].pre.stats.recovered

\* C24 witness: an adapter that had failed and recovered once was given an
\* input on which the re-run of recover failed too; failed and recovered
\* are both 2.
C24_Witness ==
    /\ last.op = "call"
    /\ last.log[1].pre.stats.failed = 1
    /\ last.log[1].call.secondary # NoExc
    /\ pipelines[last.names[1]].stats.failed = 2
    /\ pipelines[last.names[1]].stats.recovered = 2

\* the first words of the summary an adapter class returns for a call that
\* did not fail
SummaryWords(kind) ==
    CASE kind = "JSONAdapter" -> <<"Processed">>
      [] kind = "CSVAdapter" -> <<"User", "activity", "logged:">>
      [] kind = "StreamAdapter" -> <<"Stream", "summary:">>

\* C25: for each adapter in any reachable state, process returns an
\* "<Adapter> ERROR: ..." string if and only if the raw input is not text,
\* a record or a list; text, a record or a list yields a normal summary or
\* a "Recovered ..." string, for the re-run of recover on the raw input
\* fails only in the input stage.
C25_ErrorIffUnsupportedShape ==
    last.op = "call" =>
        LET kind == last.log[1].pre.kind
            c == last.log[1].call
            supported == IsStr(last.input) \/ IsDict(last.input)
                            \/ IsList(last.input)
        IN  /\ last.ret.ok
            /\ IsAdapterError(last.ret.val, kind) = ~supported
            /\ supported =>
                \/ /\ c.primary = NoExc
                   /\ StartsWith(last.ret.val.v, SummaryWords(kind))
                \/ /\ c.primary # NoExc
                   /\ c.secondary = NoExc
                   /\ StartsWith(last.ret.val.v,
                                 <<"Recovered", RecoveredWord(kind),
                                   "processing:">>)
            /\ c.secondary # NoExc => c.secondary = InvalidInputType

\* C25 witness: an adapter that had recovered before was given a boolean
\* and returned its ERROR string; the re-run failed in the input stage.
C25_Witness ==
    /\ last.op = "call"
    /\ last.log[1].pre.stats.recovered > 0
    /\ last.input = PyBool(TRUE)
    /\ IsAdapterError(last.ret.val, last.log[1].pre.kind)
    /\ last.log[1].call.secondary = InvalidInputType

C27_LastErrorSetIffFailed ==
    /\ \A n \in DOMAIN pipelines :
        (pipelines[n].stats.last_error = NoText)
            = (pipelines[n].stats.failed = 0)
    /\ last.op = "call" =>
        LET c == last.log[1].call IN
        /\ c.primary = NoExc =>
            c.pl.stats.last_error = last.log[1].pre.stats.last_error
        /\ (c.primary # NoExc /\ c.secondary = NoExc) =>
            c.pl.stats.last_error = ErrorText(c.primary)
        /\ c.secondary # NoExc =>
            c.pl.stats.last_error = ErrorText(c.secondary)
        /\ c.primary # NoExc => c.pl.stats.last_error # NoText

\* C27 witness: an adapter that had failed before was given an input it
\* processed without failure, and last_error still describes that failure.
C27_Witness ==
    /\ last.op = "call"
    /\ last.log[1].pre.stats.failed > 0
    /\ last.log[1].call.primary = NoExc
    /\ pipelines[last.names[1]].stats.last_error # NoText
    /\ pipelines[last.names[1]].stats.last_error
            = last.log[1].pre.stats.last_error

\* C28: when the re-run of recover fails, the string the adapter returns
\* describes the primary failure while last_error describes the secondary
\* one, so the two can name different errors after the same call.
C28_ReturnPrimaryKeepSecondary ==
    (last.op = "call" /\ last.log[1].call.secondary # NoExc) =>
        LET c == last.log[1].call IN
        /\ last.ret = Returned(PyStr(<<last.log[1].pre.kind, "ERROR:">>
                                        \o ErrorText(c.primary)))
        /\ c.pl.stats.last_error = ErrorText(c.secondary)

\* C28 witness: an adapter given a number returned the error string of the
\* adapter's own format check while last_error names the input stage's
\* error.
C28_Witness ==
    /\ last.op = "call"
    /\ last.input = PyInt(42)
    /\ last.log[1].call.secondary = InvalidInputType
    /\ last.log[1].call.primary # last.log[1].call.secondary
    /\ HasTok(last.ret.val.v, "format")
    /\ pipelines[last.names[1]].stats.last_error
            = ErrorText(InvalidInputType)
    /\ ~StartsWith(Tail(Tail(last.ret.val.v)),
                   pipelines[last.names[1]].stats.last_error)

\* the time the stages completed in the last call took: the growth of the
\* timing entries of the stage classes
StageTime(before, after) ==
    LET Grown(n) == TimingGet(after.stats.stage_timings_s, n)
                        - TimingGet(before.stats.stage_timings_s, n)
    IN  Grown("InputStage") + Grown("TransformStage") + Grown("OutputStage")
            + Grown("BackupTransformStage")

\* C29: every process call of an adapter adds its elapsed time to
\* total_time_s exactly once, on the success, the recovered and the error
\* path alike: the total grows by the time of the call (the time of its
\* stages and the call's own tick), so it has grown once per call made and
\* never decreases.
C29_ElapsedAddedOncePerCall ==
    /\ \A n \in DOMAIN pipelines :
        pipelines[n].stats.total_time_s >= calls[n].n
    /\ last.op = "call" =>
        LET c == last.log[1].call
            pre == last.log[1].pre
        IN  /\ c.pl.stats.total_time_s
                    = pre.stats.total_time_s + StageTime(pre, c.pl)
                        + last.tick
            /\ c.pl.stats.total_time_s > pre.stats.total_time_s

\* C29 witness: a call on the error path (the re-run failed, no stage
\* completed) added exactly its own two ticks to a total already positive.
C29_Witness ==
    /\ last.op = "call"
    /\ last.tick = 2
    /\ last.log[1].call.secondary # NoExc
    /\ last.log[1].pre.stats.total_time_s > 0
    /\ pipelines[last.names[1]].stats.total_time_s
            = last.log[1].pre.stats.total_time_s + 2

(***************************************************************************)
(* The manager with performance_report among its operations                *)
(***************************************************************************)
MaxReportCalls == 2

\* f"{num / den:.0f}": the quotient rounded to the nearest whole number, a
\* tie going to the even one
FormatWhole(num, den) ==
    LET q == num \div den
        r == num % den
        up == (2 * r > den) \/ (2 * r = den /\ q % 2 = 1)
    IN  FormatInt(IF up THEN q + 1 ELSE q)

\* a report that answers an unknown name with the manager's error string
NexusManager_performance_report_guarded(pls, name) ==
    IF name \notin DOMAIN pls
    THEN Returned(ManagerError(NotFound(name)))
    ELSE Returned(PyStr(
            <<"Performance:",
              FormatWhole(efficiency_pct(pls[name].stats)[1],
                          efficiency_pct(pls[name].stats)[2]) \o "%",
              "efficiency", ",",
              FormatTenths(10 * pls[name].stats.total_time_s) \o "s",
              "total", "processing", "time">>))

\* NexusManager.performance_report(name): self._pipelines[name] raises
\* KeyError(name) for a name that is not registered
NexusManager_performance_report(pls, name) ==
    IF name \notin DOMAIN pls
    THEN Raised(Exc("KeyError", ReprStr(<<name>>)))
    ELSE Returned(PyStr(
            <<"Performance:",
              FormatWhole(efficiency_pct(pls[name].stats)[1],
                          efficiency_pct(pls[name].stats)[2]) \o "%",
              "efficiency", ",",
              FormatTenths(10 * pls[name].stats.total_time_s) \o "s",
              "total", "processing", "time">>))

\* manager.performance_report(name)
PerformanceReport(name) ==
    /\ last' = [NoOp EXCEPT
                    !.op = "report", !.names = <<name>>,
                    !.ret = NexusManager_performance_report(pipelines, name),
                    !.before = pipelines]
    /\ UNCHANGED <<pipelines, calls, made>>

NextReport ==
    \/ \E name \in Names : AddPipeline(name)
    \/ \E name \in Names, data \in Inputs :
            made < MaxReportCalls /\ Process(name, data, 1)
    \/ \E names \in SeqsUpTo(Names, MaxReportCalls - made), data \in Inputs :
            Chain(names, data, 1)
    \/ \E name \in Names : PerformanceReport(name)

SpecReport == Init /\ [][NextReport]_vars

\* C30: performance_report with a name that is not registered raises an
\* error to the caller, whereas process and chain return a string for such
\* a name; with a registered name it returns the report text read from the
\* statistics; in both cases it changes no state of the manager or of a
\* pipeline.
C30_ReportRaisesOrReads ==
    [][/\ last'.op = "report" =>
            /\ UNCHANGED <<pipelines, calls, made>>
            /\ last'.names[1] \notin DOMAIN pipelines =>
                /\ ~last'.ret.ok
                /\ last'.ret.exc.type = "KeyError"
            /\ last'.names[1] \in DOMAIN pipelines =>
                /\ last'.ret.ok
                /\ IsStr(last'.ret.val)
                /\ StartsWith(last'.ret.val.v, <<"Performance:">>)
                /\ (pipelines[last'.names[1]].stats.processed = 0
                    /\ pipelines[last'.names[1]].stats.failed = 0) =>
                        last'.ret.val.v[2] = "100%"
       /\ last'.op \in {"process", "chain"} =>
            /\ last'.ret.ok
            /\ \A i \in 1..Len(last'.log) :
                ~last'.log[i].found =>
                    IsStr(last'.log[i].ret.val)]_vars

\* C30 witness: a report was asked for a name that is not registered while
\* another pipeline, with calls made on it, is; the report raised KeyError
\* and the pipelines are as they were.
C30_Witness ==
    /\ last.op = "report"
    /\ last.names[1] \notin DOMAIN pipelines
    /\ ~last.ret.ok
    /\ last.ret.exc.type = "KeyError"
    /\ \E n \in DOMAIN pipelines : pipelines[n].stats.failed > 0
    /\ pipelines = last.before

====
